---- MODULE Spec2Model ----
(***************************************************************************)
(* refkit: resolution of bibliographic references.                         *)
(*                                                                         *)
(* A Python string is modelled as a sequence of one-character strings, so  *)
(* that tokenisation, pattern matching and trimming are computed character *)
(* by character as the code computes them.                                 *)
(*                                                                         *)
(* A Python call either returns a value or raises; it is modelled by a     *)
(* record [exc, val]: exc = "" and val the returned value, or exc the      *)
(* name of the exception class that propagates out of the call.            *)
(***************************************************************************)
EXTENDS Integers, Sequences, FiniteSets, TLC

VARIABLES
    pc,               \* position of the control flow
    input,            \* reference.py: the input of the current lookup pass
    autoSaveMinimum,  \* thresholds of the current lookup pass, as <<num, den>>
    autoSaveMaximum,
    stack,            \* suspended outer passes (frames of _getMetadataByLookup)
    res,              \* reference.py:35 the list accumulated by the current pass
    lookup,           \* crossref.py / citation.py: the lookup string searched
    queryResults,     \* crossref.py:105 list returned by the free-form query
    shown,            \* crossref.py:151 list handed to _askUserForBestResult
    bestResult,       \* crossref.py:107 outcome of _getBestQueryResult
    lookupDoi,        \* crossref.py:50 DOI handed to _getMetadataFromDoi
    found,            \* reference.py:65,70 outcome of crossref.search
    replies,          \* number of rejected replies to the current prompt
    log,              \* history of provider calls and prompts, in order
    raised,           \* exception class that left getMetadata, "" if none
    citation,         \* citation.py:10 second argument of overlap
    score,            \* citation.py:22 result of the last overlap call
    argument,         \* argument of the call of a function taken alone
    outcome           \* what that call gave

passVars == <<input, autoSaveMinimum, autoSaveMaximum, stack>>

searchVars == <<lookup, queryResults, shown, bestResult, lookupDoi, found, replies>>

overlapVars == <<citation, score>>

callVars == <<argument, outcome>>

vars == <<pc, passVars, res, searchVars, log, raised, overlapVars, callVars>>

----------------------------------------------------------------------------
(* Results of calls *)

Return(v) == [exc |-> "", val |-> v]

Raise(e) == [exc |-> e, val |-> <<>>]

----------------------------------------------------------------------------
(* Characters: classes of Python 2 `re` on byte strings (no flags) *)

LowerSeq ==
    <<"a","b","c","d","e","f","g","h","i","j","k","l","m",
      "n","o","p","q","r","s","t","u","v","w","x","y","z">>

UpperSeq ==
    <<"A","B","C","D","E","F","G","H","I","J","K","L","M",
      "N","O","P","Q","R","S","T","U","V","W","X","Y","Z">>

Range(s) == {s[i] : i \in DOMAIN s}

Digits == {"0","1","2","3","4","5","6","7","8","9"}

Letters == Range(LowerSeq) \cup Range(UpperSeq)

\* \w
IsWordChar(c) == c \in Letters \cup Digits \cup {"_"}

\* \s
WhiteSpace == {" ", "\t", "\n", "\r", "\f"}

IsSpace(c) == c \in WhiteSpace

\* str.lower() on one character
LowerChar(c) ==
    IF c \in Range(UpperSeq)
    THEN LowerSeq[CHOOSE i \in DOMAIN UpperSeq : UpperSeq[i] = c]
    ELSE c

lower(s) == [i \in DOMAIN s |-> LowerChar(s[i])]

\* _subRegex.sub(' ', s): every \W character becomes a space
subNonWord(s) == [i \in DOMAIN s |-> IF IsWordChar(s[i]) THEN s[i] ELSE " "]

\* s[from:] (from counted from 1)
From(s, from) == SubSeq(s, from, Len(s))

\* length of the longest prefix of s made of characters of the set cs
SpanIn(s, cs) ==
    CHOOSE n \in 0..Len(s) :
        /\ \A i \in 1..n : s[i] \in cs
        /\ n < Len(s) => s[n + 1] \notin cs

\* length of the longest prefix of s made of characters outside the set cs
SpanNotIn(s, cs) ==
    CHOOSE n \in 0..Len(s) :
        /\ \A i \in 1..n : s[i] \notin cs
        /\ n < Len(s) => s[n + 1] \in cs

\* str.split(): the maximal runs of non-whitespace characters, in order
RECURSIVE split(_)
split(s) ==
    IF s = <<>> THEN <<>>
    ELSE IF IsSpace(s[1]) THEN split(Tail(s))
    ELSE LET n == SpanNotIn(s, WhiteSpace)
         IN  <<SubSeq(s, 1, n)>> \o split(From(s, n + 1))

----------------------------------------------------------------------------
(* util/citation.py *)

\* sum(matches): number of words of the lookup that occur in the citation
RECURSIVE SumMatches(_, _)
SumMatches(wordsInLookup, wordsInCitation) ==
    IF wordsInLookup = <<>> THEN 0
    ELSE (IF wordsInLookup[1] \in Range(wordsInCitation) THEN 1 ELSE 0)
         + SumMatches(Tail(wordsInLookup), wordsInCitation)

\* overlap(lookup, citation): the float sum/len is kept as the exact pair
\* <<sum, len>>; dividing by len = 0 raises ZeroDivisionError.
overlap(lkp, cit) ==
    LET wordsInLookup   == split(lower(subNonWord(lkp)))
        wordsInCitation == split(lower(subNonWord(cit)))
    IN  IF Len(wordsInLookup) = 0
        THEN Raise("ZeroDivisionError")
        ELSE Return(<<SumMatches(wordsInLookup, wordsInCitation),
                      Len(wordsInLookup)>>)

----------------------------------------------------------------------------
(* util/doi.py *)

Min(S) == CHOOSE x \in S : \A y \in S : x <= y

Reverse(s) == [i \in DOMAIN s |-> s[Len(s) + 1 - i]]

\* rstrip that removes nothing
rstripNothing(s, cs) == s

\* str.rstrip(chars)
rstrip(s, cs) == SubSeq(s, 1, Len(s) - SpanIn(Reverse(s), cs))

\* doi.py:41 _doiRegex = (?P<doi>10\.[0-9\.]+/\S+)(?!\w) tried at position i:
\* the position of the last character matched, 0 if there is no match at i.
\* Both runs are greedy and end before a character outside their class, so
\* no shorter run can match; the character behind the \S+ run is absent or
\* white space, so the lookahead for a non-word character passes.
doiMatchEnd(s, i) ==
    IF i + 2 > Len(s) \/ SubSeq(s, i, i + 2) # <<"1", "0", ".">> THEN 0
    ELSE LET n == SpanIn(From(s, i + 3), Digits \cup {"."})
             j == i + 3 + n
         IN  IF n = 0 \/ j > Len(s) THEN 0
             ELSE IF s[j] # "/" THEN 0
             ELSE LET m == SpanNotIn(From(s, j + 1), WhiteSpace)
                  IN  IF m = 0 THEN 0 ELSE j + m

\* validateStart that accepts every match
validateStartAlways(value, start) == TRUE

\* doi.py:21-35 _validateStart, for a match that starts at position start
validateStart(value, start) ==
    ~(start > 1 /\ IsWordChar(value[start - 1]))

\* doi.py:15-19 the loop over finditer, which resumes behind each match
RECURSIVE doiExtractFrom(_, _)
doiExtractFrom(value, pos) ==
    LET starts == {i \in pos..Len(value) : doiMatchEnd(value, i) > 0}
    IN  IF starts = {} THEN Raise("ValueError")
        ELSE LET i == Min(starts)
                 e == doiMatchEnd(value, i)
             IN  IF validateStart(value, i)
                 THEN Return(rstrip(SubSeq(value, i, e), {"-", ".", "/"}))
                 ELSE doiExtractFrom(value, e + 1)

\* doi.py:7-19 extract
doiExtract(value) == doiExtractFrom(value, 1)

----------------------------------------------------------------------------
(* util/arxivid.py *)

\* arxivid.py:97-113 _subjects
subjects ==
    {
      <<"s","t","a","t">>, <<"s","t","a","t",".","A","P">>, <<"s","t","a","t",".","C","O">>,
      <<"s","t","a","t",".","M","L">>, <<"s","t","a","t",".","M","E">>,
      <<"s","t","a","t",".","T","H">>, <<"q","-","b","i","o">>,
      <<"q","-","b","i","o",".","B","M">>, <<"q","-","b","i","o",".","C","B">>,
      <<"q","-","b","i","o",".","G","N">>, <<"q","-","b","i","o",".","M","N">>,
      <<"q","-","b","i","o",".","N","C">>, <<"q","-","b","i","o",".","O","T">>,
      <<"q","-","b","i","o",".","P","E">>, <<"q","-","b","i","o",".","Q","M">>,
      <<"q","-","b","i","o",".","S","C">>, <<"q","-","b","i","o",".","T","O">>, <<"c","s">>,
      <<"c","s",".","A","R">>, <<"c","s",".","A","I">>, <<"c","s",".","C","L">>,
      <<"c","s",".","C","C">>, <<"c","s",".","C","E">>, <<"c","s",".","C","G">>,
      <<"c","s",".","G","T">>, <<"c","s",".","C","V">>, <<"c","s",".","C","Y">>,
      <<"c","s",".","C","R">>, <<"c","s",".","D","S">>, <<"c","s",".","D","B">>,
      <<"c","s",".","D","L">>, <<"c","s",".","D","M">>, <<"c","s",".","D","C">>,
      <<"c","s",".","G","L">>, <<"c","s",".","G","R">>, <<"c","s",".","H","C">>,
      <<"c","s",".","I","R">>, <<"c","s",".","I","T">>, <<"c","s",".","L","G">>,
      <<"c","s",".","L","O">>, <<"c","s",".","M","S">>, <<"c","s",".","M","A">>,
      <<"c","s",".","M","M">>, <<"c","s",".","N","I">>, <<"c","s",".","N","E">>,
      <<"c","s",".","N","A">>, <<"c","s",".","O","S">>, <<"c","s",".","O","H">>,
      <<"c","s",".","P","F">>, <<"c","s",".","P","L">>, <<"c","s",".","R","O">>,
      <<"c","s",".","S","E">>, <<"c","s",".","S","D">>, <<"c","s",".","S","C">>,
      <<"n","l","i","n">>, <<"n","l","i","n",".","A","O">>, <<"n","l","i","n",".","C","G">>,
      <<"n","l","i","n",".","C","D">>, <<"n","l","i","n",".","S","I">>,
      <<"n","l","i","n",".","P","S">>, <<"m","a","t","h">>, <<"m","a","t","h",".","A","G">>,
      <<"m","a","t","h",".","A","T">>, <<"m","a","t","h",".","A","P">>,
      <<"m","a","t","h",".","C","T">>, <<"m","a","t","h",".","C","A">>,
      <<"m","a","t","h",".","C","O">>, <<"m","a","t","h",".","A","C">>,
      <<"m","a","t","h",".","C","V">>, <<"m","a","t","h",".","D","G">>,
      <<"m","a","t","h",".","D","S">>, <<"m","a","t","h",".","F","A">>,
      <<"m","a","t","h",".","G","M">>, <<"m","a","t","h",".","G","N">>,
      <<"m","a","t","h",".","G","T">>, <<"m","a","t","h",".","G","R">>,
      <<"m","a","t","h",".","H","O">>, <<"m","a","t","h",".","I","T">>,
      <<"m","a","t","h",".","K","T">>, <<"m","a","t","h",".","L","O">>,
      <<"m","a","t","h",".","M","P">>, <<"m","a","t","h",".","M","G">>,
      <<"m","a","t","h",".","N","T">>, <<"m","a","t","h",".","N","A">>,
      <<"m","a","t","h",".","O","A">>, <<"m","a","t","h",".","O","C">>,
      <<"m","a","t","h",".","P","R">>, <<"m","a","t","h",".","Q","A">>,
      <<"m","a","t","h",".","R","T">>, <<"m","a","t","h",".","R","A">>,
      <<"m","a","t","h",".","S","P">>, <<"m","a","t","h",".","S","T">>,
      <<"m","a","t","h",".","S","G">>, <<"a","s","t","r","o","-","p","h">>,
      <<"c","o","n","d","-","m","a","t">>,
      <<"c","o","n","d","-","m","a","t",".","d","i","s","-","n","n">>,
      <<"c","o","n","d","-","m","a","t",".","m","e","s","-","h","a","l","l">>,
      <<"c","o","n","d","-","m","a","t",".","m","t","r","l","-","s","c","i">>,
      <<"c","o","n","d","-","m","a","t",".","o","t","h","e","r">>,
      <<"c","o","n","d","-","m","a","t",".","s","o","f","t">>,
      <<"c","o","n","d","-","m","a","t",".","s","t","a","t","-","m","e","c","h">>,
      <<"c","o","n","d","-","m","a","t",".","s","t","r","-","e","l">>,
      <<"c","o","n","d","-","m","a","t",".","s","u","p","r","-","c","o","n">>,
      <<"g","r","-","q","c">>, <<"h","e","p","-","e","x">>, <<"h","e","p","-","l","a","t">>,
      <<"h","e","p","-","p","h">>, <<"h","e","p","-","t","h">>, <<"m","a","t","h","-","p","h">>,
      <<"n","u","c","l","-","e","x">>, <<"n","u","c","l","-","t","h">>,
      <<"p","h","y","s","i","c","s">>, <<"p","h","y","s","i","c","s",".","a","c","c","-","p","h">>,
      <<"p","h","y","s","i","c","s",".","a","o","-","p","h">>,
      <<"p","h","y","s","i","c","s",".","a","t","o","m","-","p","h">>,
      <<"p","h","y","s","i","c","s",".","a","t","m","-","c","l","u","s">>,
      <<"p","h","y","s","i","c","s",".","b","i","o","-","p","h">>,
      <<"p","h","y","s","i","c","s",".","c","h","e","m","-","p","h">>,
      <<"p","h","y","s","i","c","s",".","c","l","a","s","s","-","p","h">>,
      <<"p","h","y","s","i","c","s",".","c","o","m","p","-","p","h">>,
      <<"p","h","y","s","i","c","s",".","d","a","t","a","-","a","n">>,
      <<"p","h","y","s","i","c","s",".","f","l","u","-","d","y","n">>,
      <<"p","h","y","s","i","c","s",".","g","e","n","-","p","h">>,
      <<"p","h","y","s","i","c","s",".","g","e","o","-","p","h">>,
      <<"p","h","y","s","i","c","s",".","h","i","s","t","-","p","h">>,
      <<"p","h","y","s","i","c","s",".","i","n","s","-","d","e","t">>,
      <<"p","h","y","s","i","c","s",".","m","e","d","-","p","h">>,
      <<"p","h","y","s","i","c","s",".","o","p","t","i","c","s">>,
      <<"p","h","y","s","i","c","s",".","e","d","-","p","h">>,
      <<"p","h","y","s","i","c","s",".","s","o","c","-","p","h">>,
      <<"p","h","y","s","i","c","s",".","p","l","a","s","m","-","p","h">>,
      <<"p","h","y","s","i","c","s",".","p","o","p","-","p","h">>,
      <<"p","h","y","s","i","c","s",".","s","p","a","c","e","-","p","h">>,
      <<"q","u","a","n","t","-","p","h">> }

\* arxivid.py:90 _newPattern = [0-9]{4}\.[0-9]{4} matches at position i
newMatchAt(s, i) ==
    /\ i + 8 <= Len(s)
    /\ \A k \in {0, 1, 2, 3, 5, 6, 7, 8} : s[i + k] \in Digits
    /\ s[i + 4] = "."

\* arxivid.py:94 _oldPattern = [a-zA-Z][a-zA-Z\-\.]+/[0-9]{7} tried at
\* position i: the position of the "/" matched, 0 if there is no match at i
oldMatchSlash(s, i) ==
    IF s[i] \notin Letters THEN 0
    ELSE LET n == SpanIn(From(s, i + 1), Letters \cup {"-", "."})
             j == i + 1 + n
         IN  IF n = 0 \/ j + 7 > Len(s) THEN 0
             ELSE IF s[j] # "/" \/ \E k \in 1..7 : s[j + k] \notin Digits THEN 0
             ELSE j

\* arxivid.py:37-50 _validateStartOfFormat
validateStartOfFormat(value, start) ==
    ~(start > 1 /\ IsWordChar(value[start - 1]))

\* arxivid.py:52-68 _validateEndOfFormat, for a match whose last character
\* is at position end
validateEndOfFormat(value, end) ==
    IF end < Len(value)
    THEN LET postString == From(value, end + 1)
         IN  ~(/\ IsWordChar(postString[1])
               /\ ~(/\ postString[1] \in {"v", "V"}
                    /\ Len(postString) >= 2
                    /\ postString[2] \in Digits))
    ELSE TRUE

\* arxivid.py:31-35 the loop over finditer; val = <<id>>, or <<>> for None
RECURSIVE extractNewFormatFrom(_, _)
extractNewFormatFrom(value, pos) ==
    LET starts == {i \in pos..Len(value) : newMatchAt(value, i)}
    IN  IF starts = {} THEN <<>>
        ELSE LET i == Min(starts)
             IN  IF validateStartOfFormat(value, i) /\ validateEndOfFormat(value, i + 8)
                 THEN <<SubSeq(value, i, i + 8)>>
                 ELSE extractNewFormatFrom(value, i + 9)

\* arxivid.py:23-35 _extractNewFormat
extractNewFormat(value) == extractNewFormatFrom(value, 1)

\* arxivid.py:70-86 _extractOldFormat: only the leftmost match is looked at
extractOldFormat(value) ==
    LET starts == {i \in DOMAIN value : oldMatchSlash(value, i) > 0}
    IN  IF starts = {} THEN <<>>
        ELSE LET i == Min(starts)
                 j == oldMatchSlash(value, i)
             IN  IF SubSeq(value, i, j - 1) \in subjects
                    /\ validateEndOfFormat(value, j + 7)
                 THEN <<SubSeq(value, i, j + 7)>>
                 ELSE <<>>

\* arxivid.py:8-21 extract
arxividExtract(value) ==
    LET new == extractNewFormat(value)
        old == extractOldFormat(value)
    IN  IF new # <<>> THEN Return(new[1])
        ELSE IF old # <<>> THEN Return(old[1])
        ELSE Raise("ValueError")

----------------------------------------------------------------------------
(* Exceptions *)

\* the classes that `except Exception` does not catch
NotExceptions == {"SystemExit", "KeyboardInterrupt"}

\* CaughtByExceptException as `except ValueError:`
CaughtOnlyValueError(e) == e = "ValueError"

\* `except Exception:` catches e
CaughtByExceptException(e) == e # "" /\ e \notin NotExceptions

\* a bare `except:` catches e
CaughtByBareExcept(e) == e # ""

----------------------------------------------------------------------------
(* metadata.py: the fields of a Metadata object that the lookup reads *)

\* metadata.py:212 value.replace('\n', ' ')
replaceNewlines(s) == [i \in DOMAIN s |-> IF s[i] = "\n" THEN " " ELSE s[i]]

\* metadata.py:213 re.sub('\s+', ' ', value)
RECURSIVE collapseSpaces(_)
collapseSpaces(s) ==
    IF s = <<>> THEN <<>>
    ELSE IF IsSpace(s[1])
    THEN <<" ">> \o collapseSpaces(From(s, SpanIn(s, WhiteSpace) + 1))
    ELSE <<s[1]>> \o collapseSpaces(Tail(s))

\* str.strip()
strip(s) ==
    LET front == SpanIn(s, WhiteSpace)
        back  == SpanIn(Reverse(s), WhiteSpace)
    IN  IF front = Len(s) THEN <<>> ELSE SubSeq(s, front + 1, Len(s) - back)

\* metadata.py:205-215 _tidyObject
tidyObject(value) == strip(collapseSpaces(replaceNewlines(value)))

\* metadata.py:168-203 _tidyValue on the list of names: every value of
\* every dictionary of the list
tidyNames(names) ==
    [i \in DOMAIN names |->
        [givenName |-> tidyObject(names[i].givenName),
         familyName |-> tidyObject(names[i].familyName)]]

\* metadata.py:117-119 the loop of tidy over the attributes
tidyValues(m) ==
    [m EXCEPT !.doi = tidyObject(@), !.url = tidyObject(@),
              !.publisher = tidyObject(@), !.title = tidyObject(@),
              !.volume = tidyObject(@), !.pageStart = tidyObject(@),
              !.author = tidyNames(@)]

\* str.find(sub): the first position where sub starts, counted from 1, or 0
find(s, sub) ==
    LET at == {i \in 1..(Len(s) - Len(sub) + 1) : SubSeq(s, i, i + Len(sub) - 1) = sub}
    IN  IF at = {} THEN 0 ELSE CHOOSE i \in at : \A j \in at : i <= j

\* str.split(sep) for a separator that is not empty
RECURSIVE splitOn(_, _)
splitOn(s, sep) ==
    LET i == find(s, sep)
    IN  IF i = 0 THEN <<s>>
        ELSE <<SubSeq(s, 1, i - 1)>> \o splitOn(From(s, i + Len(sep)), sep)

\* str.replace(' ', '')
removeSpaces(s) == SelectSeq(s, LAMBDA c : c # " ")

AmericanPhysicalSociety == <<"a","m","e","r","i","c","a","n","p","h","y","s","i","c","a","l","s","o","c","i","e","t","y">>

NaturePublishing == <<"n","a","t","u","r","e","p","u","b","l","i","s","h","i","n","g">>

\* metadata.py:227-237 _tidyForAps: an index out of range ends the try block,
\* what was assigned before it stays
tidyForAps(m) ==
    IF ~((m.pageStart = <<>> \/ m.volume = <<>>) /\ Len(m.doi) > 0) THEN m
    ELSE LET bySlash == splitOn(m.doi, <<"/">>)
         IN  IF Len(bySlash) < 2 THEN m
             ELSE LET parts == splitOn(bySlash[2], <<".">>)
                  IN  IF m.volume = <<>> /\ Len(parts) < 2 THEN m
                      ELSE LET withVolume ==
                                   IF m.volume # <<>> THEN m
                                   ELSE [m EXCEPT !.volume = parts[2]]
                           IN  IF m.pageStart # <<>> \/ Len(parts) < 3 THEN withVolume
                               ELSE [withVolume EXCEPT !.pageStart = parts[3]]

\* metadata.py:239-247 _tidyForNature
tidyForNature(m) ==
    IF m.pageStart # <<>> THEN m
    ELSE LET parts == splitOn(m.doi, <<"/", "s", "r", "e", "p">>)
         IN  IF Len(parts) < 2 THEN m ELSE [m EXCEPT !.pageStart = parts[2]]

\* metadata.py:217-225 _tidyByPublisher
tidyByPublisher(m) ==
    LET lkp == removeSpaces(lower(m.publisher))
    IN  IF find(lkp, AmericanPhysicalSociety) # 0 THEN tidyForAps(m)
        ELSE IF find(lkp, NaturePublishing) # 0 THEN tidyForNature(m)
        ELSE m

\* metadata.py:113-120 tidy
tidy(m) == tidyByPublisher(tidyValues(m))

\* metadata.py:37-55 setDefaults, with the origin of the record as a tag
Metadata(origin) ==
    [origin |-> origin, doi |-> <<>>, url |-> <<>>, publisher |-> <<>>, title |-> <<>>,
     volume |-> <<>>, pageStart |-> <<>>, author |-> <<>>]

\* ', '.join(list)
RECURSIVE join(_)
join(list) ==
    IF list = <<>> THEN <<>>
    ELSE IF Len(list) = 1 THEN list[1]
    ELSE list[1] \o <<",", " ">> \o join(Tail(list))

\* metadata.py:370-379 _addValueToList, for the values in order
nonEmpty(values) == SelectSeq(values, LAMBDA v : Len(v) > 0)

\* metadata.py:381-390 _addNamesToList
namesOf(names) ==
    [i \in DOMAIN names |-> names[i].givenName \o <<" ">> \o names[i].familyName]

\* metadata.py:146-167 toUnformattedString (the other fields are empty)
toUnformattedString(m) ==
    join(nonEmpty(<<m.doi, m.url, m.publisher, m.title, m.volume>>)
         \o namesOf(m.author) \o nonEmpty(<<m.pageStart>>))

----------------------------------------------------------------------------
(* lookup/arxiv.py *)

\* arxiv.py:35 max_results of the query
MaxArxivResults == 2

\* the publisher name set at arxiv.py:77
ArxivOrg == <<"a","r","X","i","v",".","o","r","g">>

\* getEntry taking the first of several entries
getEntryFirst(entries) == Return(IF entries = <<>> THEN <<>> ELSE <<entries[1]>>)

\* arxiv.py:53-68 _getEntry; val = <<entry>>, or <<>> for None
getEntry(entries) ==
    IF Len(entries) > 1 THEN Raise("ValueError")
    ELSE Return(entries)

\* arxiv.py:70-85 _saveMetadataFromEntry; iterating over None raises
saveMetadataFromEntry(entry) ==
    IF entry = <<>> THEN Raise("TypeError")
    ELSE Return(tidy([Metadata("arxiv") EXCEPT
                        !.publisher = ArxivOrg,
                        !.title = entry[1].title,
                        !.url = entry[1].id,
                        !.doi = entry[1].doi]))

\* arxiv.py:38-51 _saveMetadata on a response: ok = FALSE is a request that
\* raised or a content that does not parse
arxivSaveMetadata(response) ==
    IF ~response.ok THEN Raise("ConnectionError")
    ELSE LET entry == getEntry(response.entries)
         IN  IF entry.exc # "" THEN entry ELSE saveMetadataFromEntry(entry.val)

\* arxiv.py:12-26 search, given the response to the query (if one is made):
\* every Exception becomes ValueError
arxivSearch(lkp, response) ==
    LET id == arxividExtract(lkp)
        m  == arxivSaveMetadata(response)
    IN  IF id.exc # "" THEN Raise("ValueError")
        ELSE IF CaughtByExceptException(m.exc) THEN Raise("ValueError")
        ELSE m

----------------------------------------------------------------------------
(* Python floats, kept exact as fractions <<num, den>> with den > 0 *)

GreaterEq(a, b) == a[1] * b[2] >= b[1] * a[2]

\* float(second) / best < maximum, for best # 0
RatioLess(second, best, maximum) ==
    second[1] * best[2] * maximum[2] < maximum[1] * second[2] * best[1]

----------------------------------------------------------------------------
(* lookup/crossref.py: ranking of the results of a free-form query *)

\* crossref.py:17
defAutoSaveMinimum == <<99, 100>>

\* crossref.py:20
defAutoSaveMaximum == <<7, 10>>

\* crossref.py:140 the list of (overlap, result) pairs; the comprehension
\* raises what overlap raises
scoredResults(lkp, results) ==
    IF \E i \in DOMAIN results : overlap(lkp, results[i].fullCitation).exc # ""
    THEN Raise("ZeroDivisionError")
    ELSE Return([i \in DOMAIN results |->
                    <<overlap(lkp, results[i].fullCitation).val, results[i]>>])

\* one step of a stable descending sort: x goes behind every pair already
\* placed whose key is not smaller
insertSorted(placed, x) ==
    LET k == Cardinality({i \in DOMAIN placed : GreaterEq(placed[i][1], x[1])})
    IN  SubSeq(placed, 1, k) \o <<x>> \o SubSeq(placed, k + 1, Len(placed))

\* crossref.py:141 sorted(results, key = itemgetter(0), reverse = True)
RECURSIVE sorted(_)
sorted(results) ==
    IF results = <<>> THEN <<>>
    ELSE insertSorted(sorted(SubSeq(results, 1, Len(results) - 1)),
                      results[Len(results)])

\* what _getBestQueryResult does: return a value (val = <<r>> for a result r,
\* <<>> for None), raise, or call _askUserForBestResult with a list
Returns(v) == [kind |-> "return", exc |-> "", val |-> v, ask |-> <<>>]

Raises(e) == [kind |-> "raise", exc |-> e, val |-> <<>>, ask |-> <<>>]

Asks(list) == [kind |-> "ask", exc |-> "", val |-> <<>>, ask |-> list]

\* crossref.py:147-148 the list handed to the prompt
askedResults(results, unsorted) == unsorted

\* bestOfSorted with the overlap required to exceed the minimum
bestOfSortedAboveMinimum(results, unsorted, minimum, maximum) ==
    IF Len(results) = 1 /\ ~GreaterEq(minimum, results[1][1])
    THEN Returns(<<results[1][2]>>)
    ELSE IF Len(results) > 1 /\ ~GreaterEq(minimum, results[1][1])
              /\ RatioLess(results[2][1], results[1][1], maximum)
    THEN Returns(<<results[1][2]>>)
    ELSE IF Len(results) > 0
    THEN Asks(askedResults(results, unsorted))
    ELSE Returns(<<>>)

\* crossref.py:142-149 the decision on the sorted pairs
bestOfSorted(results, unsorted, minimum, maximum) ==
    IF Len(results) = 1 /\ GreaterEq(results[1][1], minimum)
    THEN Returns(<<results[1][2]>>)
    ELSE IF Len(results) > 1 /\ GreaterEq(results[1][1], minimum)
              /\ results[1][1][1] = 0
    THEN Raises("ZeroDivisionError")
    ELSE IF Len(results) > 1 /\ GreaterEq(results[1][1], minimum)
              /\ RatioLess(results[2][1], results[1][1], maximum)
    THEN Returns(<<results[1][2]>>)
    ELSE IF Len(results) > 0
    THEN Asks(askedResults(results, unsorted))
    ELSE Returns(<<>>)

\* crossref.py:129-149
getBestQueryResult(lkp, results, minimum, maximum) ==
    LET scored == scoredResults(lkp, results)
    IN  IF scored.exc # "" THEN Raises(scored.exc)
        ELSE bestOfSorted(sorted(scored.val), results, minimum, maximum)

\* list[k] of Python, k counted from 0 and negative k counted from the end
pyIndex(list, k) ==
    IF 0 <= k /\ k < Len(list) THEN Return(list[k + 1])
    ELSE IF k < 0 /\ -k <= Len(list) THEN Return(list[Len(list) + k + 1])
    ELSE Raise("IndexError")

\* a reply typed at the prompt: an integer n, a text that is no integer
\* (int() raises ValueError), or an interrupt (raw_input raises
\* KeyboardInterrupt and crossref.py:183 exits)
IntReply(n) == [kind |-> "int", n |-> n]

TextReply == [kind |-> "text", n |-> 0]

Interrupt == [kind |-> "interrupt", n |-> 0]

\* crossref.py:161-162 and 179-183: one pass of the loop body for a reply
askUserOnce(list, reply) ==
    IF reply.kind = "interrupt" THEN Raise("SystemExit")
    ELSE IF reply.kind = "text" THEN Raise("ValueError")
    ELSE IF reply.n = 0 THEN Return(<<>>)
    ELSE LET r == pyIndex(list, reply.n - 1)
         IN  IF r.exc # "" THEN r ELSE Return(<<r.val>>)

----------------------------------------------------------------------------
(* lookup/crossref.py: from the best result to the Metadata object *)

\* crossref.py:106-112 _getDoiForCitation, given the outcome of
\* _getBestQueryResult: None['doi'] raises TypeError, and every Exception
\* becomes ValueError('Could not match citation to DOI')
getDoiForCitation(best) ==
    IF best.exc # ""
    THEN (IF CaughtByExceptException(best.exc) THEN Raise("ValueError") ELSE best)
    ELSE IF best.val = <<>> THEN Raise("ValueError")
    ELSE LET d == doiExtract(best.val[1].doi)
         IN  IF d.exc # "" THEN Raise("ValueError") ELSE d

\* crossref.py:67, 193-216 the answer of api.crossref.org/works/<doi> and
\* _saveMetadata on it: "error" is a request or a .json() that raises,
\* "incomplete" a JSON object without 'message' or 'container-title'
\* (KeyError at crossref.py:201 or 310), "found" a complete one
crossrefSaveMetadata(rawDoi, response) ==
    IF response = "error" THEN Raise("ConnectionError")
    ELSE IF response = "incomplete" THEN Raise("KeyError")
    ELSE Return(tidy([Metadata("crossref") EXCEPT !.doi = rawDoi]))

----------------------------------------------------------------------------
(* reference.py *)

\* accumulate with the new records put in front
accumulateInFront(list, more) == more \o list

\* reference.py:36 res += ...
accumulate(list, more) == list \o more

\* inputSearched without the test of line 68
inputAlwaysSearched(existingMetadata) == TRUE

\* reference.py:68 the input string is searched when this holds
inputSearched(existingMetadata) == Len(existingMetadata) = 0

\* reference.py:99 Metadata().getDataFromUser()
UserMetadata == [Metadata("user") EXCEPT !.title = <<"t">>]

\* reference.py:98-100 the end of _getDataFromUser
dataFromUser(list) == IF Len(list) = 0 THEN <<UserMetadata>> ELSE list

----------------------------------------------------------------------------
(* Bounds and inputs *)

MaxLookupLen == 3

MaxResults == 2

MaxRejected == 1

OverlapChars == {"a", "b", "A", ".", " "}

Strings(chars, n) == UNION {[1..k -> chars] : k \in 0..n}

\* lookup strings of the ranking: "a b c", "a b", "?"
RankLookups ==
    { <<"a", " ", "b", " ", "c">>, <<"a", " ", "b">>, <<"?">> }

\* entries of a free-form query result, with overlaps 1, 2/3, 1/3 and 0 for
\* the lookup "a b c"; the last one carries no DOI
QueryEntries ==
    { [fullCitation |-> <<"a", " ", "b", " ", "c">>, doi |-> <<"1","0",".","1","/","a">>],
      [fullCitation |-> <<"A", ",", "b">>,           doi |-> <<"1","0",".","1","/","b">>],
      [fullCitation |-> <<"a", ".">>,                doi |-> <<"1","0",".","1","/","c">>],
      [fullCitation |-> <<"d">>,                     doi |-> <<"n","/","a">>] }

QueryResultLists == UNION {[1..k -> QueryEntries] : k \in 0..MaxResults}

Thresholds == { <<0, 1>>, <<1, 2>>, defAutoSaveMaximum, defAutoSaveMinimum }

MaxDepth == 1

\* inputs of getMetadata: "a b", "1234.5678", "10.1/a"
Inputs == { <<"a", " ", "b">>, <<"1","2","3","4",".","5","6","7","8">>, <<"1","0",".","1","/","a">> }

\* thresholds passed to getMetadata
InputMinimums == { <<0, 1>>, defAutoSaveMinimum }

InputMaximums == { <<1, 2>>, defAutoSaveMaximum }

\* entries of an arXiv query result
ArxivEntries ==
    { [title |-> <<"a", "\n", " ", "b">>, id |-> <<"a","r","x","i","v",".","o","r","g","/","a","b","s","/","1","2","3","4",".","5","6","7","8","v","1">>, doi |-> <<>>],
      [title |-> <<"a", " ", "b">>,       id |-> <<"a","r","x","i","v",".","o","r","g","/","a","b","s","/","1","2","3","4",".","5","6","7","8","v","1">>, doi |-> <<"1","0",".","1","/","a">>] }

\* answers to an arXiv query
ArxivResponses ==
    {[ok |-> FALSE, entries |-> <<>>]}
    \cup {[ok |-> TRUE, entries |-> e] :
            e \in UNION {[1..k -> ArxivEntries] : k \in 0..MaxArxivResults}}

\* answers to a free-form query: a list, or ok = FALSE for a request or a
\* .json() that raises
QueryResponses ==
    {[ok |-> FALSE, list |-> <<>>]}
    \cup {[ok |-> TRUE, list |-> q] :
            q \in {l \in QueryResultLists :
                     \A i \in DOMAIN l : l[i].fullCitation \in {<<"a", " ", "b", " ", "c">>, <<"d">>}}}

DoiResponses == {"error", "incomplete", "found"}

\* what the user may type when n results are displayed
Replies(n) == {IntReply(k) : k \in (0 - n - 1)..(n + 1)} \cup {TextReply, Interrupt}

Nothing == Raise("")

----------------------------------------------------------------------------
(* Specification of overlap as a pure function *)

InitOverlap ==
    /\ pc = "overlap"
    /\ lookup \in Strings(OverlapChars, MaxLookupLen)
    /\ citation = <<>>
    /\ score = Nothing
    /\ argument = <<>>
    /\ outcome = Nothing
    /\ input = <<>>
    /\ autoSaveMinimum = <<0, 1>>
    /\ autoSaveMaximum = <<0, 1>>
    /\ stack = <<>>
    /\ res = <<>>
    /\ queryResults = <<>>
    /\ shown = <<>>
    /\ bestResult = Nothing
    /\ lookupDoi = <<>>
    /\ found = Nothing
    /\ replies = 0
    /\ log = <<>>
    /\ raised = ""

\* one call overlap(lookup, citation), the citation being the lookup itself
\* or the lookup with one more character in front
Overlap ==
    /\ pc = "overlap"
    /\ \E c \in {lookup} \cup {<<x>> \o lookup : x \in OverlapChars} :
          /\ citation' = c
          /\ score' = overlap(lookup, c)
    /\ pc' = "overlapped"
    /\ UNCHANGED <<passVars, res, searchVars, log, raised, callVars>>

NextOverlap == Overlap

SpecOverlap == InitOverlap /\ [][NextOverlap]_vars

----------------------------------------------------------------------------
(* lookup/crossref.py: the steps of _getDoiForCitation after the query *)

\* an entry of the history
Event(ev, arg, ok) == [ev |-> ev, arg |-> arg, ok |-> ok]

Prompt(list) == Event("prompt", list, TRUE)

\* crossref.py:107, 129-149 _getBestQueryResult up to its return, its raise
\* or its call of _askUserForBestResult
GetBestQueryResult ==
    /\ pc = "rank"
    /\ LET d == getBestQueryResult(lookup, queryResults, autoSaveMinimum, autoSaveMaximum)
       IN  \/ /\ d.kind = "ask"
              /\ pc' = "prompt"
              /\ shown' = d.ask
              /\ log' = Append(log, Prompt(d.ask))
              /\ UNCHANGED bestResult
           \/ /\ d.kind # "ask"
              /\ pc' = "best"
              /\ bestResult' = [exc |-> d.exc, val |-> d.val]
              /\ UNCHANGED <<shown, log>>
    /\ replies' = 0
    /\ UNCHANGED <<passVars, res, lookup, queryResults, lookupDoi, found, raised,
                   overlapVars, callVars>>

\* crossref.py:151-183 one reply at the prompt of _askUserForBestResult: the
\* loop ends with a return or with SystemExit, and any Exception asks again
AskUserForBestResult ==
    /\ pc = "prompt"
    /\ \E reply \in Replies(Len(shown)) :
          LET r == askUserOnce(shown, reply)
          IN  \/ /\ CaughtByExceptException(r.exc)
                 /\ replies < MaxRejected
                 /\ replies' = replies + 1
                 /\ log' = Append(log, Prompt(shown))
                 /\ UNCHANGED <<pc, bestResult>>
              \/ /\ ~CaughtByExceptException(r.exc)
                 /\ bestResult' = r
                 /\ pc' = "best"
                 /\ UNCHANGED <<replies, log>>
    /\ UNCHANGED <<passVars, res, lookup, queryResults, shown, lookupDoi, found,
                   raised, overlapVars, callVars>>

----------------------------------------------------------------------------
(* Specification of the ranking: _getBestQueryResult on bounded inputs *)

InitRank ==
    /\ pc = "rank"
    /\ lookup \in RankLookups
    /\ queryResults \in QueryResultLists
    /\ autoSaveMinimum \in Thresholds
    /\ autoSaveMaximum \in Thresholds
    /\ input = lookup
    /\ citation = <<>>
    /\ score = Nothing
    /\ argument = <<>>
    /\ outcome = Nothing
    /\ stack = <<>>
    /\ res = <<>>
    /\ shown = <<>>
    /\ bestResult = Nothing
    /\ lookupDoi = <<>>
    /\ found = Nothing
    /\ replies = 0
    /\ log = <<>>
    /\ raised = ""

NextRank == GetBestQueryResult \/ AskUserForBestResult

SpecRank == InitRank /\ [][NextRank]_vars

----------------------------------------------------------------------------
(* reference.py: getMetadata, one action per step of _getMetadataByLookup *)

NoSearch ==
    /\ lookup = <<>>
    /\ queryResults = <<>>
    /\ shown = <<>>
    /\ bestResult = Nothing
    /\ lookupDoi = <<>>
    /\ found = Nothing
    /\ replies = 0

\* the locals of a search that has returned are gone
ClearSearch ==
    /\ lookup' = <<>>
    /\ queryResults' = <<>>
    /\ shown' = <<>>
    /\ bestResult' = Nothing
    /\ lookupDoi' = <<>>
    /\ found' = Nothing
    /\ replies' = 0

\* the call getMetadata(input, autoSaveMinimum, autoSaveMaximum)
Init ==
    /\ pc = "arxiv"
    /\ input \in Inputs
    /\ autoSaveMinimum \in InputMinimums
    /\ autoSaveMaximum \in InputMaximums
    /\ stack = <<>>
    /\ res = <<>>
    /\ NoSearch
    /\ log = <<>>
    /\ raised = ""
    /\ citation = <<>>
    /\ score = Nothing
    /\ argument = <<>>
    /\ outcome = Nothing

\* the search of the current try block is the one seeded by the arXiv record
Seeded ==
    \E i \in DOMAIN log :
        /\ log[i].ev = "search.arxiv"
        /\ \A j \in (i + 1)..Len(log) : log[j].ev # "search.input"

\* reference.py:35, 39-49 res = _getMetadataFromArxiv(input): arxiv.search
\* with the answer of the provider, which is queried when an identifier was
\* extracted
GetMetadataFromArxiv ==
    /\ pc = "arxiv"
    /\ LET id == arxividExtract(input)
       IN  \E response \in IF id.exc = "" THEN ArxivResponses
                                          ELSE {[ok |-> FALSE, entries |-> <<>>]} :
              LET m == arxivSearch(input, response)
              IN  /\ log' = IF id.exc # "" THEN log
                            ELSE Append(log, Event("arxiv",
                                    [id |-> id.val,
                                     entries |-> IF response.ok THEN Len(response.entries)
                                                 ELSE 0 - 1,
                                     found |-> IF m.exc = "" THEN <<m.val>> ELSE <<>>],
                                    m.exc = ""))
                  /\ IF m.exc = ""
                     THEN res' = <<m.val>> /\ pc' = "crossref" /\ UNCHANGED raised
                     ELSE IF CaughtByExceptException(m.exc)
                     THEN res' = <<>> /\ pc' = "crossref" /\ UNCHANGED raised
                     ELSE pc' = "raised" /\ raised' = m.exc /\ UNCHANGED res
    /\ UNCHANGED <<passVars, searchVars, overlapVars, callVars>>

\* reference.py:63-65 and 68-70, crossref.py:45-50, 82-88, 104-105, 114-127:
\* crossref.search up to the answer to the free-form query. The string
\* searched is that of the record found on arXiv, else the input.
\* (crossref.py:47 normalize/encode leaves an ASCII string as it is.)
Search ==
    /\ \/ pc = "crossref" /\ (res # <<>> \/ inputSearched(res))
       \/ pc = "input"
    /\ LET seeded == pc = "crossref" /\ res # <<>>
           lkp == IF seeded THEN toUnformattedString(res[1]) ELSE input
           d == doiExtract(lkp)
           call == Event(IF seeded THEN "search.arxiv" ELSE "search.input", lkp, TRUE)
       IN  /\ lookup' = lkp
           /\ IF d.exc = ""
              THEN /\ lookupDoi' = d.val
                   /\ pc' = "doi"
                   /\ log' = Append(log, call)
                   /\ UNCHANGED <<queryResults, found>>
              ELSE \E response \in QueryResponses :
                   /\ log' = log \o <<call, Event("query", lkp, response.ok)>>
                   /\ IF response.ok
                      THEN queryResults' = response.list /\ pc' = "rank"
                           /\ UNCHANGED found
                      ELSE found' = Raise("ConnectionError") /\ pc' = "searched"
                           /\ UNCHANGED queryResults
                   /\ UNCHANGED lookupDoi
    /\ UNCHANGED <<passVars, res, shown, bestResult, replies, raised, overlapVars, callVars>>

\* crossref.py:106-112 the end of _getDoiForCitation
GetDoiForCitation ==
    /\ pc = "best"
    /\ LET d == getDoiForCitation(bestResult)
       IN  IF d.exc = ""
           THEN lookupDoi' = d.val /\ pc' = "doi" /\ UNCHANGED found
           ELSE found' = d /\ pc' = "searched" /\ UNCHANGED lookupDoi
    /\ UNCHANGED <<passVars, res, lookup, queryResults, shown, bestResult, replies,
                   log, raised, overlapVars, callVars>>

\* crossref.py:51-52, 56-69, 193-216 _getMetadataFromDoi and _saveMetadata:
\* the provider is queried when a DOI is extracted from lookupDoi
GetMetadataFromDoi ==
    /\ pc = "doi"
    /\ LET rawDoi == doiExtract(lookupDoi)
       IN  IF rawDoi.exc # ""
           THEN found' = Raise("ValueError") /\ UNCHANGED log
           ELSE \E response \in DoiResponses :
                   /\ found' = crossrefSaveMetadata(rawDoi.val, response)
                   /\ log' = Append(log, Event("doi", rawDoi.val, response = "found"))
    /\ pc' = "searched"
    /\ UNCHANGED <<passVars, res, lookup, queryResults, shown, bestResult, lookupDoi,
                   replies, raised, overlapVars, callVars>>

\* reference.py:63-74 what _getMetadataFromCrossref does with the outcome of
\* crossref.search: line 65/70 return, line 66 except Exception, line 71 bare
\* except, line 68 and line 74; the list returned is added at line 36
GetMetadataFromCrossref ==
    /\ pc = "searched"
    /\ IF found.exc = ""
       THEN res' = accumulate(res, <<found.val>>) /\ pc' = "return"
            /\ UNCHANGED raised
       ELSE IF Seeded
       THEN IF CaughtByExceptException(found.exc)
            THEN /\ IF inputSearched(res)
                    THEN pc' = "input" /\ UNCHANGED res
                    ELSE pc' = "return" /\ res' = accumulate(res, <<>>)
                 /\ UNCHANGED raised
            ELSE pc' = "raised" /\ raised' = found.exc /\ UNCHANGED res
       ELSE IF CaughtByBareExcept(found.exc)
            THEN pc' = "manual" /\ UNCHANGED <<res, raised>>
            ELSE pc' = "raised" /\ raised' = found.exc /\ UNCHANGED res
    /\ UNCHANGED <<passVars, searchVars, log, overlapVars, callVars>>

\* reference.py:73, 76-100 _promptForManualEntry and _getDataFromUser up to
\* the recursive call of _getMetadataByLookup (with the default thresholds)
PromptForManualEntry ==
    /\ pc = "manual"
    /\ \/ /\ log' = Append(log, Event("manual", <<"n">>, TRUE))
          /\ res' = accumulate(res, <<>>)
          /\ pc' = "return"
          /\ UNCHANGED <<passVars, searchVars>>
       \/ /\ log' = Append(log, Event("manual", <<"y">>, TRUE))
          /\ res' = accumulate(res, dataFromUser(<<>>))
          /\ pc' = "return"
          /\ UNCHANGED <<passVars, searchVars>>
       \/ \E better \in Inputs :
          /\ Len(stack) < MaxDepth
          /\ stack' = Append(stack, [input |-> input,
                                     autoSaveMinimum |-> autoSaveMinimum,
                                     autoSaveMaximum |-> autoSaveMaximum,
                                     res |-> res])
          /\ input' = better
          /\ autoSaveMinimum' = defAutoSaveMinimum
          /\ autoSaveMaximum' = defAutoSaveMaximum
          /\ res' = <<>>
          /\ ClearSearch
          /\ log' = <<>>
          /\ pc' = "arxiv"
    /\ UNCHANGED <<raised, overlapVars, callVars>>

\* reference.py:37 return res: to the caller of getMetadata, or into the
\* _getDataFromUser of the suspended pass (reference.py:97-100, 85, 73, 36)
ReturnMetadata ==
    /\ pc = "return"
    /\ \/ /\ stack = <<>>
          /\ pc' = "done"
          /\ UNCHANGED <<passVars, res, searchVars, log>>
       \/ /\ stack # <<>>
          /\ LET frame == stack[Len(stack)]
             IN  /\ res' = accumulate(frame.res, dataFromUser(res))
                 /\ input' = frame.input
                 /\ autoSaveMinimum' = frame.autoSaveMinimum
                 /\ autoSaveMaximum' = frame.autoSaveMaximum
          /\ stack' = SubSeq(stack, 1, Len(stack) - 1)
          /\ ClearSearch
          /\ log' = <<Event("relookup", <<>>, TRUE)>>
          /\ pc' = "return"
    /\ UNCHANGED <<raised, overlapVars, callVars>>

Next ==
    \/ GetMetadataFromArxiv
    \/ Search
    \/ GetBestQueryResult
    \/ AskUserForBestResult
    \/ GetDoiForCitation
    \/ GetMetadataFromDoi
    \/ GetMetadataFromCrossref
    \/ PromptForManualEntry
    \/ ReturnMetadata

Spec == Init /\ [][Next]_vars

----------------------------------------------------------------------------
(* C10 *)

\* C10: overlapScore(lookup, lookup) equals 1.0 for every non-empty lookup
\* string, also for one made only of non-alphanumeric characters.
C10_SelfOverlapIsOne ==
    (pc = "overlapped" /\ citation = lookup /\ lookup # <<>>)
        => (score.exc = "" /\ score.val[1] = score.val[2])

\* a self-overlap of a lookup that holds a word has been computed
C10_Witness ==
    /\ pc = "overlapped"
    /\ citation = lookup
    /\ lookup = <<"a", " ", "A">>
    /\ score = Return(<<2, 2>>)

----------------------------------------------------------------------------
(* C3, C8, C9: the ranking, under SpecRank *)

\* the lookup holds at least one word, so that every overlap is defined
HasWord(lkp) == overlap(lkp, lkp).exc = ""

\* overlap of the lookup with the i-th query result
ScoreOf(i) == overlap(lookup, queryResults[i].fullCitation).val

\* the top-ranked result: the first, in the order of the query, among those
\* of greatest overlap
TopIndex ==
    CHOOSE i \in DOMAIN queryResults :
        /\ \A j \in DOMAIN queryResults : GreaterEq(ScoreOf(i), ScoreOf(j))
        /\ \A j \in 1..(i - 1) : ~GreaterEq(ScoreOf(j), ScoreOf(i))

\* the second-best overlap: the greatest among the other results
SecondScore ==
    LET others == DOMAIN queryResults \ {TopIndex}
        j == CHOOSE k \in others : \A m \in others : GreaterEq(ScoreOf(k), ScoreOf(m))
    IN  ScoreOf(j)

\* rules (a) and (b); second/best < autoMax is read as
\* second < autoMax * best, which no pair with best = 0 satisfies
AcceptRule ==
    \/ /\ Len(queryResults) = 1
       /\ GreaterEq(ScoreOf(1), autoSaveMinimum)
    \/ /\ Len(queryResults) > 1
       /\ GreaterEq(ScoreOf(TopIndex), autoSaveMinimum)
       /\ SecondScore[1] * ScoreOf(TopIndex)[2] * autoSaveMaximum[2]
            < autoSaveMaximum[1] * SecondScore[2] * ScoreOf(TopIndex)[1]

\* _getBestQueryResult returned a result without asking the user
AutoAccepted ==
    /\ pc = "best"
    /\ log = <<>>
    /\ bestResult.exc = ""
    /\ bestResult.val # <<>>

\* the ranked list: the query results in descending order of overlap, ties
\* in the order of the query
Ranked ==
    LET s == sorted(scoredResults(lookup, queryResults).val)
    IN  [i \in DOMAIN s |-> s[i][2]]

\* C3: when the result set is ambiguous the prompt receives the candidates
\* in ranked order (descending overlap, ties in original order).
C3_PromptShowsRanked ==
    pc = "prompt" => shown = Ranked

\* the sorted pairs of the examples of C8: overlaps 0.99, 0.5 and 0.8
ExampleA == <<<<99, 100>>, "A">>

ExampleB5 == <<<<5, 10>>, "B">>

ExampleB8 == <<<<8, 10>>, "B">>

C8_Examples ==
    /\ bestOfSorted(<<ExampleA>>, <<"A">>, defAutoSaveMinimum, defAutoSaveMaximum)
         = Returns(<<"A">>)
    /\ bestOfSorted(<<ExampleA, ExampleB5>>, <<"A", "B">>,
                    defAutoSaveMinimum, defAutoSaveMaximum) = Returns(<<"A">>)
    /\ bestOfSorted(<<ExampleA, ExampleB8>>, <<"A", "B">>,
                    defAutoSaveMinimum, defAutoSaveMaximum).kind = "ask"

C9_NonEmptyNeverFails ==
    (pc = "best" /\ log = <<>> /\ queryResults # <<>> /\ HasWord(lookup))
        => (bestResult.exc = "" /\ bestResult.val # <<>>)

----------------------------------------------------------------------------
(* C1, C2, C4, C5, C6, C7: getMetadata *)

\* the events of the current pass that name ev
EventsOf(ev) == {i \in DOMAIN log : log[i].ev = ev}

\* the arXiv lookup of the current pass found a record
ArxivSucceeded == \E i \in EventsOf("arxiv") : log[i].ok

\* the list is handed back to the caller of the pass
Returning == pc \in {"return", "done"}

Origins == [i \in DOMAIN res |-> res[i].origin]

\* C1: when the arXiv lookup of the pass succeeded the list returned has the
\* arXiv record first and the CrossRef record found from it, if any, second;
\* every list returned, after a manual re-lookup too, holds at most two
\* records, and a record of arXiv is its first, a record of CrossRef follows
\* nothing but a record of arXiv, a record typed by the user stands alone.
C1_PrimaryRecordFirst ==
    Returning =>
        /\ Len(res) <= 2
        /\ Origins \in {<<>>, <<"arxiv">>, <<"arxiv", "crossref">>, <<"crossref">>,
                        <<"user">>}
        /\ \A i \in EventsOf("arxiv") :
              log[i].ok =>
                 /\ Len(res) >= 1
                 /\ <<res[1]>> = log[i].arg.found
                 /\ res[1].origin = "arxiv"
                 /\ Len(res) = 2 => found = Return(res[2])
                 /\ found.exc = "" => Len(res) = 2

\* a list of two records is returned out of a manual re-lookup
C1_Witness ==
    /\ pc = "done"
    /\ Origins = <<"arxiv", "crossref">>
    /\ EventsOf("relookup") # {}

\* the user interrupted the disambiguation prompt of the current search
Cancelled == shown # <<>> /\ bestResult.exc = "SystemExit"

\* C2: once the user has cancelled at the disambiguation prompt, on the
\* arXiv-seeded and on the raw-lookup path alike, nothing follows but the
\* propagation of the exit out of getMetadata: no manual-entry prompt, no
\* list returned.
C2_CancelAborts ==
    Cancelled =>
        /\ pc \in {"best", "searched", "raised"}
        /\ pc = "raised" => raised = "SystemExit"

\* why the search of the input string gave no record: the query or the DOI
\* lookup failed, the query gave no result, the user selected none, or no
\* DOI could be extracted from the result selected
NoRecordCause ==
    \/ \E i \in EventsOf("query") \cup EventsOf("doi") :
          ~log[i].ok /\ found.exc \in {"ConnectionError", "KeyError"}
    \/ EventsOf("query") # {} /\ queryResults = <<>> /\ found.exc = "ValueError"
    \/ shown # <<>> /\ bestResult = Return(<<>>) /\ found.exc = "ValueError"
    \/ /\ bestResult.exc = ""
       /\ bestResult.val # <<>>
       /\ doiExtract(bestResult.val[1].doi).exc # ""
       /\ found.exc = "ValueError"
    \/ /\ EventsOf("query") = {}
       /\ doiExtract(lookupDoi).exc # ""
       /\ found.exc = "ValueError"

\* C4: the manual-entry prompt is reached only when the arXiv lookup gave no
\* record and the search of the input string, made before it, gave none for
\* one of the causes above; never in a pass whose arXiv lookup succeeded.
C4_ManualEntryOnlyAfterRawFailure ==
    (pc = "manual" \/ EventsOf("manual") # {}) =>
        /\ ~ArxivSucceeded
        /\ EventsOf("search.arxiv") = {}
        /\ \E i \in EventsOf("search.input") :
              /\ log[i].arg = input
              /\ \A j \in EventsOf("manual") : i < j
        /\ NoRecordCause

\* the arXiv provider answered with no entry or with more than one
ArxivNotOne ==
    \E i \in EventsOf("arxiv") : log[i].arg.entries \in (0..MaxArxivResults) \ {1}

\* C5: an arXiv answer of no entry or several entries gives no arXiv record
\* and no failure: the pass goes on with the search of the input string;
\* and no list ever holds more than one arXiv record.
C5_ArxivNotOneSuppressed ==
    /\ Cardinality({i \in DOMAIN res : res[i].origin = "arxiv"}) <= 1
    /\ ArxivNotOne =>
          /\ ~ArxivSucceeded
          /\ \A i \in DOMAIN res : res[i].origin # "arxiv"
          /\ pc # "raised" /\ raised = ""
          /\ pc = "crossref" => res = <<>>
          /\ EventsOf("search.arxiv") = {}
          /\ pc \notin {"arxiv", "crossref"} =>
                \E i \in EventsOf("search.input") : log[i].arg = input

\* two entries were answered and the pass ended with the record of CrossRef
C5_Witness ==
    /\ pc = "done"
    /\ \E i \in EventsOf("arxiv") : log[i].arg.entries = 2
    /\ Origins = <<"crossref">>

\* the last event of the pass is the manual entry declined
ManualDeclined ==
    /\ log # <<>>
    /\ log[Len(log)] = Event("manual", <<"n">>, TRUE)

\* C6: getMetadata raises nothing for an identifier not found, a provider
\* call that failed or an ambiguous provider result (the one exit is the
\* user's interrupt), and with every lookup failed and manual entry declined
\* it returns the empty list.
C6_FailuresAbsorbed ==
    /\ raised # "" => raised = "SystemExit" /\ Cancelled
    /\ pc = "raised" <=> raised # ""
    /\ (Returning /\ ManualDeclined) => res = <<>> /\ raised = ""

\* arXiv answered several entries, the query of CrossRef failed, manual
\* entry was declined, and the empty list is returned
C6_Witness ==
    /\ pc = "done"
    /\ ManualDeclined
    /\ ArxivNotOne
    /\ \E i \in EventsOf("query") : ~log[i].ok
    /\ res = <<>>

ProviderCalls == {"arxiv", "query", "doi"}

----------------------------------------------------------------------------
(* metadata.py: tidy called on a record, and called again on the same record *)

MaxSuffixLen == 4

\* what follows the registrant in the doi of a record
DoiSuffixChars == {"a", ".", " ", "5"}

RecordDois ==
    {p \o s : p \in {<<"1", "/">>, <<"1", "/", "s", "r", "e", "p">>},
              s \in Strings(DoiSuffixChars, MaxSuffixLen)}

RecordPublishers == {<<"A","m","e","r","i","c","a","n"," "," ","P","h","y","s","i","c","a","l"," ","S","o","c","i","e","t","y">>, <<"N","a","t","u","r","e"," ","P","u","b","l","i","s","h","i","n","g"," ","G","r","o","u","p">>, <<"x">>}

RecordNames ==
    {<<>>, <<[givenName |-> <<" ", "j", " ", " ", "p">>, familyName |-> <<"m", "c", "\n">>]>>}

Records ==
    {[Metadata("record") EXCEPT !.doi = d, !.publisher = p, !.title = <<"a", "\n", " ", "b">>,
                                !.volume = v, !.pageStart = g, !.author = n] :
        d \in RecordDois, p \in RecordPublishers, v \in {<<>>, <<" ", "7">>},
        g \in {<<>>, <<"9", "\n">>}, n \in RecordNames}

InitTidy ==
    /\ pc = "tidy"
    /\ argument \in Records
    /\ outcome = Nothing
    /\ lookup = <<>>
    /\ citation = <<>>
    /\ score = Nothing
    /\ input = <<>>
    /\ autoSaveMinimum = <<0, 1>>
    /\ autoSaveMaximum = <<0, 1>>
    /\ stack = <<>>
    /\ res = <<>>
    /\ queryResults = <<>>
    /\ shown = <<>>
    /\ bestResult = Nothing
    /\ lookupDoi = <<>>
    /\ found = Nothing
    /\ replies = 0
    /\ log = <<>>
    /\ raised = ""

\* metadata.py:113-120 one call of tidy() on the record, which it changes in
\* place; outcome keeps the record as it was before the call
Tidy ==
    /\ pc \in {"tidy", "tidied"}
    /\ outcome' = Return(argument)
    /\ argument' = tidy(argument)
    /\ pc' = IF pc = "tidy" THEN "tidied" ELSE "tidied again"
    /\ UNCHANGED <<passVars, res, searchVars, log, raised, overlapVars>>

NextTidy == Tidy

SpecTidy == InitTidy /\ [][NextTidy]_vars

\* C11: tidy is idempotent: a second call of tidy() changes no field of the
\* record, volume and pageStart filled in from the doi included.
C11_TidyIdempotent ==
    pc = "tidied again" => argument = outcome.val

\* no newline or other white space than single inner spaces
IsTidyText(s) ==
    /\ \A i \in DOMAIN s : IsSpace(s[i]) => s[i] = " "
    /\ \A i \in 1..(Len(s) - 1) : ~(s[i] = " " /\ s[i + 1] = " ")
    /\ s # <<>> => s[1] # " " /\ s[Len(s)] # " "

\* C12: after tidy() every text field of the record, volume and pageStart
\* filled in from the doi and the names of the authors included, holds no
\* newline, no run of spaces and no leading or trailing space.
C12_TidyLeavesTidyText ==
    pc \in {"tidied", "tidied again"} =>
        /\ \A f \in {"doi", "url", "publisher", "title", "volume", "pageStart"} :
              IsTidyText(argument[f])
        /\ \A i \in DOMAIN argument.author :
              /\ IsTidyText(argument.author[i].givenName)
              /\ IsTidyText(argument.author[i].familyName)

----------------------------------------------------------------------------
(* util/doi.py: extract called on a text *)

\* strings of 1 to n characters
Words(chars, n) == Strings(chars, n) \ {<<>>}

MaxRegistrantLen == 2

\* strings that the pattern 10\.[0-9\.]+/\S+ matches as a whole
DoiShaped ==
    {<<"1", "0", ".">> \o r \o <<"/">> \o s :
        r \in Words({"1", "."}, MaxRegistrantLen),
        s \in Words({"b", "-", ".", "/"}, MaxSuffixLen)}

PrefixText == <<"p","r","e","f","i","x"," ">>

SuffixText == <<" ","s","u","f","f","i","x">>

\* a DOI between a prefix and a suffix
EmbeddedDois == {PrefixText \o d \o SuffixText : d \in DoiShaped}

\* one or two DOI-shaped pieces with and without separators around them
JoinedDois ==
    {a \o <<"1","0",".","1","/","b">> \o m \o b :
        a \in {<<>>, <<"x">>, <<"1">>, <<"_">>, <<",">>, <<" ">>},
        m \in {<<>>, <<",">>, <<" ">>, <<"x">>, <<",", " ">>},
        b \in {<<>>, <<"1","0",".","5","/","c">>, <<"1","0",".","5">>, <<"1","0",".","/","c">>}}

InitDoi ==
    /\ pc = "extract"
    /\ argument \in EmbeddedDois \cup JoinedDois
    /\ outcome = Nothing
    /\ lookup = <<>>
    /\ citation = <<>>
    /\ score = Nothing
    /\ input = <<>>
    /\ autoSaveMinimum = <<0, 1>>
    /\ autoSaveMaximum = <<0, 1>>
    /\ stack = <<>>
    /\ res = <<>>
    /\ queryResults = <<>>
    /\ shown = <<>>
    /\ bestResult = Nothing
    /\ lookupDoi = <<>>
    /\ found = Nothing
    /\ replies = 0
    /\ log = <<>>
    /\ raised = ""

\* doi.py:7-19 one call extract(argument)
ExtractDoi ==
    /\ pc = "extract"
    /\ outcome' = doiExtract(argument)
    /\ pc' = "extracted"
    /\ UNCHANGED <<passVars, res, searchVars, log, raised, overlapVars, argument>>

NextDoi == ExtractDoi

SpecDoi == InitDoi /\ [][NextDoi]_vars

\* the DOI of a text of EmbeddedDois
Embedded == SubSeq(argument, Len(PrefixText) + 1, Len(argument) - Len(SuffixText))

IsEmbedded == argument \in EmbeddedDois

TrimmedChars == {"-", ".", "/"}

\* r is d without its trailing characters '-', '.' and '/'
IsTrimmed(r, d) ==
    /\ Len(r) <= Len(d)
    /\ r = SubSeq(d, 1, Len(r))
    /\ \A i \in (Len(r) + 1)..Len(d) : d[i] \in TrimmedChars
    /\ r # <<>> => r[Len(r)] \notin TrimmedChars

\* C13: for a string d that the DOI pattern matches, extract("prefix " + d +
\* " suffix") returns d without its trailing '-', '.' and '/', and nothing of
\* the text around it.
C13_ExtractsEmbeddedDoi ==
    (pc = "extracted" /\ IsEmbedded) =>
        /\ outcome.exc = ""
        /\ IsTrimmed(outcome.val, Embedded)

\* a DOI that ends with characters to trim was extracted
C13_Witness ==
    /\ pc = "extracted"
    /\ IsEmbedded
    /\ Embedded = <<"1","0",".","1","/","b","-",".">>
    /\ outcome = Return(<<"1","0",".","1","/","b">>)

\* the letters and digits
IsAlnum(c) == c \in Letters \cup Digits

\* the pattern matches at position i of the text
DoiOccursAt(i) == doiMatchEnd(argument, i) > 0

\* the occurrence at i has no letter or digit in front of it
NotAfterAlnum(i) == i = 1 \/ ~IsAlnum(argument[i - 1])

\* r is returned from the occurrence at position i
ReturnedFrom(r, i) ==
    /\ DoiOccursAt(i)
    /\ IsTrimmed(r, SubSeq(argument, i, doiMatchEnd(argument, i)))

\* C14: what extract returns is never taken from an occurrence that has a
\* letter or a digit right in front of it, and a text whose occurrences all
\* have one gives ValueError.
C14_NoMatchAfterAlnum ==
    pc = "extracted" =>
        /\ outcome.exc = "" =>
              \E i \in DOMAIN argument : ReturnedFrom(outcome.val, i) /\ NotAfterAlnum(i)
        /\ ((\E i \in DOMAIN argument : DoiOccursAt(i))
             /\ \A i \in DOMAIN argument : DoiOccursAt(i) => ~NotAfterAlnum(i))
              => outcome = Raise("ValueError")

\* the text "x10.1/b" gave ValueError
C14_Witness ==
    /\ pc = "extracted"
    /\ argument = <<"x">> \o <<"1","0",".","1","/","b">>
    /\ outcome = Raise("ValueError")

\* the occurrences that are not behind a letter or a digit
ValidOccurrences == {i \in DOMAIN argument : DoiOccursAt(i) /\ NotAfterAlnum(i)}

\* C15: extract returns the leftmost valid occurrence and fails only when
\* the text holds none: whenever the pattern occurs at a position that has
\* no letter or digit in front of it, extract returns, also when that
\* position lies in the token of an earlier rejected occurrence.
C15_LeftmostValidMatch ==
    pc = "extracted" =>
        /\ ValidOccurrences # {} => outcome.exc = ""
        /\ outcome.exc = "" =>
              /\ ValidOccurrences # {}
              /\ ReturnedFrom(outcome.val, Min(ValidOccurrences))

----------------------------------------------------------------------------
(* util/arxivid.py: extract called on a text *)

NewId == <<"1","2","3","4",".","5","6","7","8">>

OldId == <<"h","e","p","-","t","h","/","1","2","3","4","5","6","7">>

\* an identifier of either format, or an old-format shape with a subject
\* that is not known, with and without text in front of and behind it
ArxivTexts ==
    {a \o c \o b :
        a \in {<<>>, <<"x">>, <<"1">>, <<":">>, <<"_">>, <<"f","o","o","/","1","2","3","4","5","6","7">> \o <<" ">>},
        c \in {NewId, OldId, <<"f","o","o","/","1","2","3","4","5","6","7">>, <<"m","a","t","h",".","A","G","/","1","2","3","4","5","6","7">>},
        b \in {<<>>, <<"v", "2">>, <<"v">>, <<"x">>, <<"9">>, <<" ">>, <<".","9","0","1","2">>,
               <<" ">> \o OldId}}

InitArxivId ==
    /\ pc = "extract"
    /\ argument \in ArxivTexts
    /\ outcome = Nothing
    /\ lookup = <<>>
    /\ citation = <<>>
    /\ score = Nothing
    /\ input = <<>>
    /\ autoSaveMinimum = <<0, 1>>
    /\ autoSaveMaximum = <<0, 1>>
    /\ stack = <<>>
    /\ res = <<>>
    /\ queryResults = <<>>
    /\ shown = <<>>
    /\ bestResult = Nothing
    /\ lookupDoi = <<>>
    /\ found = Nothing
    /\ replies = 0
    /\ log = <<>>
    /\ raised = ""

\* arxivid.py:8-21 one call extract(argument)
ExtractArxivId ==
    /\ pc = "extract"
    /\ outcome' = arxividExtract(argument)
    /\ pc' = "extracted"
    /\ UNCHANGED <<passVars, res, searchVars, log, raised, overlapVars, argument>>

NextArxivId == ExtractArxivId

SpecArxivId == InitArxivId /\ [][NextArxivId]_vars

\* the substring from i to e has no letter or digit in front of it, and
\* behind it none but a version suffix v<digit>
BoundaryValid(i, e) ==
    /\ i = 1 \/ ~IsAlnum(argument[i - 1])
    /\ \/ e = Len(argument)
       \/ ~IsAlnum(argument[e + 1])
       \/ /\ argument[e + 1] \in {"v", "V"}
          /\ e + 2 <= Len(argument)
          /\ argument[e + 2] \in Digits

\* positions where a new-format identifier stands with valid boundaries
ValidNew ==
    {i \in DOMAIN argument : newMatchAt(argument, i) /\ BoundaryValid(i, i + 8)}

\* positions where letters, '/' and seven digits stand with a known subject
\* in front of the '/' and valid boundaries
ValidOld ==
    {i \in DOMAIN argument :
        \E j \in (i + 1)..(Len(argument) - 7) :
            /\ argument[j] = "/"
            /\ SubSeq(argument, i, j - 1) \in subjects
            /\ \A k \in 1..7 : argument[j + k] \in Digits
            /\ BoundaryValid(i, j + 7)}

\* the places where the string r stands in the text
PlacesOf(r) ==
    {i \in 1..(Len(argument) - Len(r) + 1) : SubSeq(argument, i, i + Len(r) - 1) = r}

\* C16: an identifier of either format is returned only from a place where
\* no letter or digit stands right in front of it and none right behind it
\* but a version suffix v<digit>; "1234.5678v2" gives "1234.5678".
C16_BoundaryValidated ==
    pc = "extracted" =>
        /\ outcome.exc = "" =>
              \E i \in PlacesOf(outcome.val) : BoundaryValid(i, i + Len(outcome.val) - 1)
        /\ argument = NewId \o <<"v", "2">> => outcome = Return(NewId)

\* C17: when a valid new-format identifier stands anywhere in the text one
\* is returned; otherwise, when a valid old-format identifier with a known
\* subject stands anywhere in the text, one is returned; ValueError is
\* raised only for a text that holds neither.
C17_FindsValidIdentifier ==
    pc = "extracted" =>
        /\ ValidNew # {} =>
              /\ outcome.exc = ""
              /\ PlacesOf(outcome.val) \cap ValidNew # {}
        /\ (ValidNew = {} /\ ValidOld # {}) =>
              /\ outcome.exc = ""
              /\ PlacesOf(outcome.val) \cap ValidOld # {}
        /\ outcome.exc # "" => (ValidNew = {} /\ ValidOld = {})

----------------------------------------------------------------------------
(* util/isbn.py: extract called on a text *)

\* isbn.py:15 value.replace('-', '')
removeHyphens(s) == SelectSeq(s, LAMBDA c : c # "-")

\* isbn.py:54 _isbnRegex = [0-9]{13}|[0-9]{10} tried at position i: the
\* length matched, 13 before 10, or 0
isbnMatchLen(s, i) ==
    LET n == SpanIn(From(s, i), Digits)
    IN  IF n >= 13 THEN 13 ELSE IF n >= 10 THEN 10 ELSE 0

\* isbn.py:22-36 _validateStart, for a match that starts at position start
isbnValidateStart(value, start) ==
    ~(start > 1 /\ IsWordChar(value[start - 1]))

\* isbnValidateEnd that accepts every match
isbnValidateEndAlways(value, end) == TRUE

\* isbn.py:38-52 _validateEnd, for a match whose last character is at end
isbnValidateEnd(value, end) ==
    ~(end < Len(value) /\ IsWordChar(value[end + 1]))

\* isbn.py:16-20 the loop over finditer, which resumes behind each match
RECURSIVE isbnExtractFrom(_, _)
isbnExtractFrom(value, pos) ==
    LET starts == {i \in pos..Len(value) : isbnMatchLen(value, i) > 0}
    IN  IF starts = {} THEN Raise("ValueError")
        ELSE LET i == Min(starts)
                 e == i + isbnMatchLen(value, i) - 1
             IN  IF isbnValidateStart(value, i) /\ isbnValidateEnd(value, e)
                 THEN Return(SubSeq(value, i, e))
                 ELSE isbnExtractFrom(value, e + 1)

\* isbn.py:7-20 extract
isbnExtract(value) == isbnExtractFrom(removeHyphens(value), 1)

MaxRunLen == 14

DigitSeq == <<"1", "2", "3", "4", "5", "6", "7", "8", "9", "0">>

\* a run of n digits
DigitRun(n) == [i \in 1..n |-> DigitSeq[((i - 1) % 10) + 1]]

\* a run of digits of any length up to MaxRunLen and a run of 0, 10 or 13
\* digits, with and without other characters around and between them
IsbnTexts ==
    {a \o DigitRun(n) \o m \o DigitRun(k) \o b :
        a \in {<<>>, <<"x">>, <<" ">>, <<"_">>, <<"-">>},
        n \in 0..MaxRunLen,
        m \in {<<>>, <<"-">>, <<" ">>, <<"x">>},
        k \in {0, 10, 13},
        b \in {<<>>, <<"x">>, <<" ">>, <<".">>}}

InitIsbn ==
    /\ pc = "extract"
    /\ argument \in IsbnTexts
    /\ outcome = Nothing
    /\ lookup = <<>>
    /\ citation = <<>>
    /\ score = Nothing
    /\ input = <<>>
    /\ autoSaveMinimum = <<0, 1>>
    /\ autoSaveMaximum = <<0, 1>>
    /\ stack = <<>>
    /\ res = <<>>
    /\ queryResults = <<>>
    /\ shown = <<>>
    /\ bestResult = Nothing
    /\ lookupDoi = <<>>
    /\ found = Nothing
    /\ replies = 0
    /\ log = <<>>
    /\ raised = ""

\* isbn.py:7-20 one call extract(argument)
ExtractIsbn ==
    /\ pc = "extract"
    /\ outcome' = isbnExtract(argument)
    /\ pc' = "extracted"
    /\ UNCHANGED <<passVars, res, searchVars, log, raised, overlapVars, argument>>

NextIsbn == ExtractIsbn

SpecIsbn == InitIsbn /\ [][NextIsbn]_vars

\* the text without its hyphens
Stripped == SelectSeq(argument, LAMBDA c : c # "-")

\* the lengths of the maximal runs of digits of the stripped text
RunLengths ==
    {SpanIn(From(Stripped, i), Digits) :
        i \in {j \in DOMAIN Stripped :
                 Stripped[j] \in Digits /\ (j = 1 \/ Stripped[j - 1] \notin Digits)}}

\* the places of the stripped text where r stands with no letter or digit
\* right in front of it or right behind it
IsolatedPlacesOf(r) ==
    {i \in 1..(Len(Stripped) - Len(r) + 1) :
        /\ SubSeq(Stripped, i, i + Len(r) - 1) = r
        /\ i = 1 \/ ~IsAlnum(Stripped[i - 1])
        /\ i + Len(r) > Len(Stripped) \/ ~IsAlnum(Stripped[i + Len(r)])}

\* C18: what extract returns is a string of exactly 10 or exactly 13 digits
\* that stands in the hyphen-stripped text with no letter or digit right in
\* front of it or right behind it; a text whose runs of digits all have
\* another length gives no result, not through a part of a run either.
C18_IsbnIsWholeRun ==
    pc = "extracted" =>
        /\ outcome.exc = "" =>
              /\ Len(outcome.val) \in {10, 13}
              /\ \A i \in DOMAIN outcome.val : outcome.val[i] \in Digits
              /\ IsolatedPlacesOf(outcome.val) # {}
        /\ RunLengths \cap {10, 13} = {} => outcome = Raise("ValueError")

\* a hyphen joined two runs into one of 13 digits, which was returned
C18_Witness ==
    /\ pc = "extracted"
    /\ argument = DigitRun(3) \o <<"-">> \o DigitRun(10) \o <<".">>
    /\ outcome = Return(DigitRun(3) \o DigitRun(10))

----------------------------------------------------------------------------
(* format/author.py: formatName and formatFamilyName *)

\* str.upper() on one character
UpperChar(c) ==
    IF c \in Range(LowerSeq)
    THEN UpperSeq[CHOOSE i \in DOMAIN LowerSeq : LowerSeq[i] = c]
    ELSE c

\* str.isupper(): a cased character, and no lowercase one
isupper(s) ==
    /\ \E i \in DOMAIN s : s[i] \in Range(UpperSeq)
    /\ \A i \in DOMAIN s : s[i] \notin Range(LowerSeq)

\* str.title(): a letter that follows no letter in upper case, the other
\* letters in lower case
strTitle(s) ==
    [i \in DOMAIN s |->
        IF i = 1 \/ s[i - 1] \notin Letters THEN UpperChar(s[i]) ELSE LowerChar(s[i])]

\* str.lstrip(chars)
lstrip(s, cs) == From(s, SpanIn(s, cs) + 1)

\* sep.join(list)
RECURSIVE joinWith(_, _)
joinWith(list, sep) ==
    IF list = <<>> THEN <<>>
    ELSE IF Len(list) = 1 THEN list[1]
    ELSE list[1] \o sep \o joinWith(Tail(list), sep)

\* author.py:96-102 one part of _setCapitalization
capitalizePart(part) ==
    IF find(part, <<"m", "c">>) = 1
    THEN <<"M", "c">> \o strTitle(lstrip(part, {"m", "c"}))
    ELSE IF find(part, <<"m", "a", "c">>) = 1
    THEN <<"M", "a", "c">> \o strTitle(lstrip(part, {"m", "a", "c"}))
    ELSE strTitle(part)

\* author.py:87-103 _setCapitalization
setCapitalization(name) ==
    LET parts == splitOn(lower(name), <<"'">>)
    IN  joinWith([k \in DOMAIN parts |-> capitalizePart(parts[k])], <<"'">>)

\* author.py:68-85 _capitalizeHyphenatedName
capitalizeHyphenatedName(name, isFamilyName) ==
    LET parts == splitOn(name, <<"-">>)
    IN  joinWith([k \in DOMAIN parts |->
                    IF ~isupper(parts[k]) THEN parts[k]
                    ELSE IF isFamilyName THEN setCapitalization(parts[k])
                    ELSE strTitle(parts[k])], <<"-">>)

\* author.py:54-66 _capitalizeName
capitalizeName(name, isFamilyName) ==
    LET parts == split(name)
    IN  joinWith([k \in DOMAIN parts |-> capitalizeHyphenatedName(parts[k], isFamilyName)],
                 <<" ">>)

\* author.py:131-146 _abbreviateAbbreviatedName: i[0] raises for an empty part
abbreviateAbbreviatedName(name) ==
    LET parts == nonEmpty(splitOn(name, <<".">>))
    IN  joinWith([k \in DOMAIN parts |-> <<parts[k][1], ".">>], <<" ">>)

\* author.py:118-129 _abbreviateHyphenatedName
abbreviateHyphenatedName(name) ==
    LET parts == splitOn(name, <<"-">>)
    IN  joinWith([k \in DOMAIN parts |-> abbreviateAbbreviatedName(parts[k])], <<"-">>)

\* author.py:105-116 _abbreviateName
abbreviateName(name) ==
    LET parts == split(name)
    IN  joinWith([k \in DOMAIN parts |-> abbreviateHyphenatedName(parts[k])], <<" ">>)

\* str.replace('.', '. ')
spaceAfterDots(s) ==
    IF s = <<>> THEN <<>>
    ELSE joinWith([k \in DOMAIN s |-> IF s[k] = "." THEN <<".", " ">> ELSE <<s[k]>>], <<>>)

\* author.py:24-33 formatGivenName
formatGivenName(name, abbreviate) ==
    LET capitalizedName == strip(collapseSpaces(spaceAfterDots(capitalizeName(name, FALSE))))
    IN  IF ~abbreviate THEN capitalizedName ELSE abbreviateName(capitalizedName)

\* author.py:35-42 formatFamilyName
formatFamilyName(name) == capitalizeName(name, TRUE)

\* author.py:7-22 formatName
formatName(givenName, familyName, abbreviate, familyNameFirst) ==
    IF familyNameFirst
    THEN formatFamilyName(familyName) \o <<",", " ">> \o formatGivenName(givenName, abbreviate)
    ELSE formatGivenName(givenName, abbreviate) \o <<" ">> \o formatFamilyName(familyName)

MaxRestLen == 3

\* a name all in lower case, all in upper case, and with its first letter
\* in upper case
Cases(s) == {lower(s), [i \in DOMAIN s |-> UpperChar(s[i])], strTitle(lower(s))}

\* family names of one segment: mc, mac or nothing, and then some letters
Segments ==
    {p \o r : p \in {<<>>, <<"m", "c">>, <<"m", "a", "c">>},
              r \in Words({"a", "c", "d"}, MaxRestLen)}

FamilyNames ==
    UNION {Cases(s) : s \in Segments \cup {<<"m","c","d","o","n","a","l","d">>, <<"m","a","c","a","r","t","h","u","r">>, <<"m","c","c","a","r","t","h","y">>, <<"o","'","n","e","i","l">>, <<"l", "i", "-", "m", "c", "a">>}}

GivenNames == UNION {Cases(s) : s \in {<<"j","e","a","n","-","p","a","u","l">>, <<"j", ".", "p", ".">>, <<"a", "d", "a">>}}

InitName ==
    /\ pc = "format"
    /\ argument \in [givenName : GivenNames, familyName : FamilyNames,
                     abbreviate : BOOLEAN, familyNameFirst : BOOLEAN]
    /\ outcome = Nothing
    /\ lookup = <<>>
    /\ citation = <<>>
    /\ score = Nothing
    /\ input = <<>>
    /\ autoSaveMinimum = <<0, 1>>
    /\ autoSaveMaximum = <<0, 1>>
    /\ stack = <<>>
    /\ res = <<>>
    /\ queryResults = <<>>
    /\ shown = <<>>
    /\ bestResult = Nothing
    /\ lookupDoi = <<>>
    /\ found = Nothing
    /\ replies = 0
    /\ log = <<>>
    /\ raised = ""

\* author.py:7-22 one call formatName(givenName, familyName, abbreviate,
\* familyNameFirst)
FormatName ==
    /\ pc = "format"
    /\ outcome' = Return(formatName(argument.givenName, argument.familyName,
                                    argument.abbreviate, argument.familyNameFirst))
    /\ pc' = "formatted"
    /\ UNCHANGED <<passVars, res, searchVars, log, raised, overlapVars, argument>>

\* author.py:35-42 one call formatFamilyName(familyName)
FormatFamilyName ==
    /\ pc = "format"
    /\ outcome' = Return(formatFamilyName(argument.familyName))
    /\ pc' = "family formatted"
    /\ UNCHANGED <<passVars, res, searchVars, log, raised, overlapVars, argument>>

NextName == FormatName \/ FormatFamilyName

SpecName == InitName /\ [][NextName]_vars

\* every letter that follows no letter is in upper case
PartsCapitalized(s) ==
    \A i \in DOMAIN s :
        (s[i] \in Letters /\ (i = 1 \/ s[i - 1] \notin Letters)) => s[i] \in Range(UpperSeq)

\* C19: formatName capitalizes each hyphen-separated part of the given and
\* of the family name, and abbreviating leaves of each part of the given
\* name its initial in upper case and a period, whatever the case of the
\* input: "jean-paul", "mcdonald" abbreviated and family name first give
\* "McDonald, J.-P.".
C19_FormatNameCapitalizes ==
    pc = "formatted" =>
        /\ PartsCapitalized(outcome.val)
        /\ (/\ lower(argument.givenName) = <<"j","e","a","n","-","p","a","u","l">>
            /\ lower(argument.familyName) = <<"m","c","d","o","n","a","l","d">>
            /\ argument.abbreviate
            /\ argument.familyNameFirst)
              => outcome.val = <<"M","c","D","o","n","a","l","d",","," ","J",".","-","P",".">>

\* a family name of one segment that begins with mc or mac in any case
BeginsWithMc ==
    /\ \A i \in DOMAIN argument.familyName : argument.familyName[i] \in Letters
    /\ \/ find(lower(argument.familyName), <<"m", "c">>) = 1
       \/ find(lower(argument.familyName), <<"m", "a", "c">>) = 1

\* the prefix mc or mac of such a name, as it is to be written
McPrefix ==
    IF find(lower(argument.familyName), <<"m", "c">>) = 1 THEN <<"M", "c">>
    ELSE <<"M", "a", "c">>

\* C20: for a family name that begins with mc or mac in any case
\* formatFamilyName gives Mc or Mac and the rest with its first letter in
\* upper case: the letters of the input in their order, changed in case
\* only.
C20_McAndMacPrefix ==
    (pc = "family formatted" /\ BeginsWithMc) =>
        /\ lower(outcome.val) = lower(argument.familyName)
        /\ SubSeq(outcome.val, 1, Len(McPrefix)) = McPrefix
        /\ Len(outcome.val) > Len(McPrefix) =>
              outcome.val[Len(McPrefix) + 1] \in Range(UpperSeq)

----------------------------------------------------------------------------
(* format/author.py: splitName *)

\* str.split(sep, 1) for a separator of one character
splitOnce(s, sep) ==
    LET i == find(s, <<sep>>)
    IN  IF i = 0 THEN <<s>> ELSE <<SubSeq(s, 1, i - 1), From(s, i + 1)>>

\* author.py:148-155 _splitNameAtComma
splitNameAtComma(name) ==
    LET parts == splitOnce(name, ",")
    IN  nonEmpty([k \in DOMAIN parts |-> strip(parts[k])])

\* isAbbreviation for words of one character only
isSingleCharacter(part) == Len(part) = 1

\* author.py:209, 211 a word of one character or one that ends with a period
isAbbreviation(part) == Len(part) = 1 \/ part[Len(part)] = "."

\* the given name and the family name returned
Names(given, family) == [givenName |-> given, familyName |-> family]

\* author.py:200-213 _splitNameByAbbreviations
splitNameByAbbreviations(parts) ==
    LET at == {i \in 2..Len(parts) : ~isAbbreviation(parts[i])}
    IN  IF isAbbreviation(parts[1]) /\ at # {}
        THEN Return(Names(joinWith(SubSeq(parts, 1, Min(at) - 1), <<" ">>),
                          joinWith(SubSeq(parts, Min(at), Len(parts)), <<" ">>)))
        ELSE Raise("ValueError")

\* author.py:188-198 _identifyPartsOfName
identifyPartsOfName(parts) ==
    LET byAbbreviations == splitNameByAbbreviations(parts)
    IN  IF byAbbreviations.exc = "" THEN byAbbreviations.val
        ELSE Names(joinWith(SubSeq(parts, 1, Len(parts) - 1), <<" ">>), parts[Len(parts)])

\* author.py:170-186 _splitNameByWords
splitNameByWords(name) ==
    LET parts == split(name)
    IN  IF Len(parts) = 0 THEN Names(<<>>, <<>>)
        ELSE IF Len(parts) = 1 THEN Names(<<>>, parts[1])
        ELSE IF Len(parts) = 2 THEN Names(parts[1], parts[2])
        ELSE identifyPartsOfName(parts)

\* author.py:157-168 _splitNameIntoParts
splitNameIntoParts(name) ==
    LET parts == splitNameAtComma(name)
    IN  IF Len(parts) = 2 THEN Names(parts[2], parts[1]) ELSE splitNameByWords(name)

\* author.py:44-52 splitName
splitName(name) == splitNameIntoParts(name)

MaxWords == 4

\* the words of the full names: "J.", "R", "ab", "ab," and ","
NameWords == {<<"J", ".">>, <<"R">>, <<"a", "b">>, <<"a", "b", ",">>, <<",">>}

\* full names of up to MaxWords words, with one space between the words
FullNames ==
    {joinWith(ws, <<" ">>) : ws \in UNION {[1..k -> NameWords] : k \in 0..MaxWords}}

InitSplit ==
    /\ pc = "split"
    /\ argument \in FullNames
    /\ outcome = Nothing
    /\ lookup = <<>>
    /\ citation = <<>>
    /\ score = Nothing
    /\ input = <<>>
    /\ autoSaveMinimum = <<0, 1>>
    /\ autoSaveMaximum = <<0, 1>>
    /\ stack = <<>>
    /\ res = <<>>
    /\ queryResults = <<>>
    /\ shown = <<>>
    /\ bestResult = Nothing
    /\ lookupDoi = <<>>
    /\ found = Nothing
    /\ replies = 0
    /\ log = <<>>
    /\ raised = ""

\* author.py:44-52 one call splitName(argument)
SplitName ==
    /\ pc = "split"
    /\ outcome' = Return(splitName(argument))
    /\ pc' = "split done"
    /\ UNCHANGED <<passVars, res, searchVars, log, raised, overlapVars, argument>>

NextSplit == SplitName

SpecSplit == InitSplit /\ [][NextSplit]_vars

\* the position of the first comma of the name, 0 if it has none
FirstComma == find(argument, <<",">>)

\* C21: for a full name with a comma, splitName gives the text before the
\* first comma, stripped, as family name and the text behind it, stripped,
\* as given name, also when one of the two is empty; that comma is in
\* neither.
C21_SplitAtFirstComma ==
    (pc = "split done" /\ FirstComma > 0) =>
        /\ outcome.val.familyName = strip(SubSeq(argument, 1, FirstComma - 1))
        /\ outcome.val.givenName = strip(From(argument, FirstComma + 1))

\* the words of the name
NameParts == split(argument)

\* the first word behind a leading run of abbreviations that is longer than
\* one character and does not end with a period; 0 if there is none
SplitPoint ==
    LET at == {i \in 2..Len(NameParts) :
                 /\ \A j \in 1..(i - 1) :
                       Len(NameParts[j]) = 1 \/ NameParts[j][Len(NameParts[j])] = "."
                 /\ Len(NameParts[i]) > 1
                 /\ NameParts[i][Len(NameParts[i])] # "."}
    IN  IF at = {} THEN 0 ELSE Min(at)

\* where the family name begins for a name of three words or more
FamilyFrom == IF SplitPoint > 0 THEN SplitPoint ELSE Len(NameParts)

\* C22: for a full name of k words without a comma: k = 0 gives two empty
\* names, k = 1 the word as family name, k = 2 the first word as given and
\* the second as family name, k >= 3 the leading abbreviations as given name
\* and the rest as family name, or without such a split all but the last
\* word as given name; the words of the result are the words of the input.
C22_SplitByWords ==
    (pc = "split done" /\ FirstComma = 0) =>
        LET k == Len(NameParts)
            given == split(outcome.val.givenName)
            family == split(outcome.val.familyName)
        IN  /\ given \o family = NameParts
            /\ k = 0 => given = <<>> /\ family = <<>>
            /\ k = 1 => given = <<>>
            /\ k = 2 => Len(given) = 1
            /\ k >= 3 => Len(given) = FamilyFrom - 1
            /\ outcome.val.givenName = joinWith(given, <<" ">>)
            /\ outcome.val.familyName = joinWith(family, <<" ">>)

\* "J. R ab ab": the abbreviations went to the given name
C22_Witness ==
    /\ pc = "split done"
    /\ argument = <<"J", ".", " ", "R", " ", "a", "b", " ", "a", "b">>
    /\ outcome.val = Names(<<"J", ".", " ", "R">>, <<"a", "b", " ", "a", "b">>)

----------------------------------------------------------------------------
(* metadata.py: _formatNameString *)

EtAl == <<"e", "t", " ", "a", "l", ".">>

\* truncateAt without the test that more names follow
truncateAtMaximum(i, names, maxAuthors) == maxAuthors > 1 /\ i = maxAuthors - 1

\* metadata.py:363 the test that ends the list with 'et al.', i counted
\* from 0
truncateAt(i, names, maxAuthors) ==
    maxAuthors > 1 /\ i = maxAuthors - 1 /\ i < Len(names) - 1

\* metadata.py:361-367 the loop of _formatNameString from index i on
RECURSIVE formatNamesFrom(_, _, _, _, _)
formatNamesFrom(i, names, maxAuthors, abbreviateNames, familyNameFirst) ==
    IF i >= Len(names) THEN <<>>
    ELSE IF truncateAt(i, names, maxAuthors) THEN <<EtAl>>
    ELSE <<formatName(names[i + 1].givenName, names[i + 1].familyName,
                      abbreviateNames, familyNameFirst)>>
         \o formatNamesFrom(i + 1, names, maxAuthors, abbreviateNames, familyNameFirst)

\* metadata.py:350-368 _formatNameString
formatNameString(names, maxAuthors, abbreviateNames, familyNameFirst) ==
    joinWith(formatNamesFrom(0, names, maxAuthors, abbreviateNames, familyNameFirst),
             <<",", " ">>)

MaxNames == 4

\* the names of the lists
ListedNames == {Names(<<"J","A","N","E">>, <<"D","O","E">>), Names(<<"a",".","b",".">>, <<"M","C","C">>)}

InitNames ==
    /\ pc = "names"
    /\ argument \in [names : UNION {[1..k -> ListedNames] : k \in 0..MaxNames},
                     maxAuthors : 0..(MaxNames + 1),
                     abbreviateNames : BOOLEAN, familyNameFirst : BOOLEAN]
    /\ outcome = Nothing
    /\ lookup = <<>>
    /\ citation = <<>>
    /\ score = Nothing
    /\ input = <<>>
    /\ autoSaveMinimum = <<0, 1>>
    /\ autoSaveMaximum = <<0, 1>>
    /\ stack = <<>>
    /\ res = <<>>
    /\ queryResults = <<>>
    /\ shown = <<>>
    /\ bestResult = Nothing
    /\ lookupDoi = <<>>
    /\ found = Nothing
    /\ replies = 0
    /\ log = <<>>
    /\ raised = ""

\* metadata.py:350-368 one call _formatNameString(names, maxAuthors,
\* abbreviateNames, familyNameFirst)
FormatNameString ==
    /\ pc = "names"
    /\ outcome' = Return(formatNameString(argument.names, argument.maxAuthors,
                                          argument.abbreviateNames,
                                          argument.familyNameFirst))
    /\ pc' = "names formatted"
    /\ UNCHANGED <<passVars, res, searchVars, log, raised, overlapVars, argument>>

NextNames == FormatNameString

SpecNames == InitNames /\ [][NextNames]_vars

\* the first n names of the list, each one formatted
Formatted(n) ==
    [i \in 1..n |-> formatName(argument.names[i].givenName, argument.names[i].familyName,
                               argument.abbreviateNames, argument.familyNameFirst)]

\* the entries that the list is to show
ShownEntries ==
    IF argument.maxAuthors > 1 /\ Len(argument.names) > argument.maxAuthors
    THEN Formatted(argument.maxAuthors - 1) \o <<EtAl>>
    ELSE Formatted(Len(argument.names))

\* C23: with maxAuthors > 1 a list of more than maxAuthors names is shown as
\* its first maxAuthors - 1 names and 'et al.', a list of no more than
\* maxAuthors names in full, so never more than maxAuthors entries; with
\* maxAuthors < 2 every name is shown.
C23_EtAlTruncation ==
    pc = "names formatted" =>
        /\ outcome.val = joinWith(ShownEntries, <<",", " ">>)
        /\ argument.maxAuthors > 1 => Len(ShownEntries) <= argument.maxAuthors

\* four names and maxAuthors = 3: two names and 'et al.'
C23_Witness ==
    /\ pc = "names formatted"
    /\ Len(argument.names) = 4
    /\ argument.maxAuthors = 3
    /\ ~argument.familyNameFirst
    /\ Len(splitOn(outcome.val, <<",", " ">>)) = 3
    /\ splitOn(outcome.val, <<",", " ">>)[3] = EtAl

----------------------------------------------------------------------------
(* format/journal.py: abbreviation of journal names *)

\* journal.py:11-15 the dictionaries are unpickled from files of the
\* directory format/abbr; keys are lower-case. The entries here are examples
\* with one key or more in every dictionary.
journals == (<<"p", "h", "y", "s", "i", "c", "a", "l", "r", "e", "v", "i", "e", "w", "l", "e", "t", "t", "e", "r", "s">> :> <<"P", "h", "y", "s", ".", " ", "R", "e", "v", ".", " ", "L", "e", "t", "t", ".">>)

replacements == (<<"j", "o", "u", "r", "n", "a", "l">> :> <<"J", ".">>)

prefixes ==
    (<<"p", "h", "y", "s">> :> <<"p", "h", "y", "s", ".">>) @@ (<<"r", "e", "v">> :> <<"r", "e", "v", ".">>) @@ (<<"l", "e", "t", "t">> :> <<"l", "e", "t", "t", ".">>)

suffixes == (<<"o", "l", "o", "g", "y">> :> <<"o", "l", ".">>)

infixes == (<<"a", "n">> :> <<"a", ".">>) @@ (<<"n", "a">> :> <<"n", ".">>)

\* `i is parts[k]` for the element i at place n of the list returned by
\* split: the element at place k is the same object when n = k; whether two
\* equal strings of the list are one object is left to the interpreter
\* (shared)
isSameObject(parts, n, k, shared) == n = k \/ (shared /\ parts[n] = parts[k])

\* the values of a list of optional values
RECURSIVE present(_)
present(options) ==
    IF options = <<>> THEN <<>> ELSE Head(options) \o present(Tail(options))

Max(S) == CHOOSE x \in S : \A y \in S : y <= x

\* journal.py:33-44 _getJournalAbbreviation
getJournalAbbreviation(name) ==
    LET key == SelectSeq(lower(name), LAMBDA c : IsWordChar(c))
    IN  IF key \in DOMAIN journals THEN Return(journals[key]) ELSE Raise("KeyError")

\* journal.py:103-110 _getFullReplacement: the replacement or None
getFullReplacement(name) ==
    IF name \in DOMAIN replacements THEN <<replacements[name]>> ELSE <<>>

\* journal.py:112-125 _getPrefixReplacement: name[:i] for i from len(name)
\* down to 0
getPrefixReplacement(name) ==
    LET keys == {i \in 0..Len(name) : SubSeq(name, 1, i) \in DOMAIN prefixes}
    IN  IF keys = {} THEN <<>> ELSE <<prefixes[SubSeq(name, 1, Max(keys))]>>

\* journal.py:127-140 _getSuffixReplacement: name[i:] for i from 0 up to
\* len(name)
getSuffixReplacement(name) ==
    LET keys == {i \in 0..Len(name) : From(name, i + 1) \in DOMAIN suffixes}
    IN  IF keys = {} THEN <<>>
        ELSE <<SubSeq(name, 1, Min(keys)) \o suffixes[From(name, Min(keys) + 1)]>>

\* journal.py:142-157 _getInfixReplacement: name[j:i+j] for the length i
\* from len(name) down to 0 and, for one length, j from 0 up to
\* len(name) - i
getInfixReplacement(name) ==
    LET keys == {ij \in (0..Len(name)) \X (0..Len(name)) :
                    /\ ij[1] + ij[2] <= Len(name)
                    /\ SubSeq(name, ij[2] + 1, ij[1] + ij[2]) \in DOMAIN infixes}
        i == Max({ij[1] : ij \in keys})
        j == Min({ij[2] : ij \in {k \in keys : k[1] = i}})
    IN  IF keys = {} THEN <<>>
        ELSE <<SubSeq(name, 1, j) \o infixes[SubSeq(name, j + 1, i + j)]>>

\* journal.py:83-101 _abbreviateWord
abbreviateWord(name) ==
    LET lowercaseName == lower(name)
        full == getFullReplacement(lowercaseName)
        prefix == IF full = <<>> THEN getPrefixReplacement(lowercaseName) ELSE full
        suffix == IF prefix = <<>> THEN getSuffixReplacement(lowercaseName) ELSE prefix
        infix == IF suffix = <<>> THEN getInfixReplacement(lowercaseName) ELSE suffix
    IN  IF infix = <<>> THEN Raise("KeyError")
        ELSE IF lower(rstrip(infix[1], {"."})) # lowercaseName THEN Return(infix[1])
        ELSE Return(name)

\* journal.py:65-81 _abbreviateParts
abbreviateParts(name, forcePrintFirst, shared) ==
    LET parts == split(name)
        word(n) ==
            LET r == abbreviateWord(parts[n])
            IN  IF r.exc = "" THEN <<strTitle(r.val)>>
                ELSE IF \/ isSameObject(parts, n, Len(parts), shared)
                        \/ (forcePrintFirst /\ isSameObject(parts, n, 1, shared))
                THEN <<strTitle(parts[n])>>
                ELSE <<>>
    IN  joinWith(present([n \in 1..Len(parts) |-> word(n)]), <<" ">>)

\* journal.py:46-63 _abbreviateSubtitle
abbreviateSubtitle(name, checkForJournal, shared) ==
    LET parts == splitOn(name, <<"-">>)
    IN  IF checkForJournal /\ getJournalAbbreviation(name).exc = ""
        THEN getJournalAbbreviation(name).val
        ELSE joinWith([n \in 1..Len(parts) |-> abbreviateParts(parts[n], TRUE, shared)],
                      <<"-">>)

\* journal.py:17-31 getAbbreviation
getAbbreviation(name, shared) ==
    LET parts == splitOn(name, <<":">>)
    IN  IF getJournalAbbreviation(name).exc = "" THEN getJournalAbbreviation(name).val
        ELSE joinWith([n \in 1..Len(parts) |->
                          abbreviateSubtitle(parts[n], isSameObject(parts, n, 1, shared),
                                             shared)],
                      <<":", " ">>)

----------------------------------------------------------------------------
(* Specification of getAbbreviation as a pure function *)

\* most words of a journal name
MaxJournalWords == 3

\* words with a full replacement, with a prefix, with a suffix, with two
\* infixes, with none, and one that is its own abbreviation
JournalWords ==
    {<<"J", "o", "u", "r", "n", "a", "l">>, <<"p", "h", "y", "s", "i", "c", "a", "l">>, <<"B", "i", "o", "l", "o", "g", "y">>, <<"b", "a", "n", "a", "n", "a">>, <<"t", "h", "e">>, <<"R", "e", "v">>}

\* what stands between two words
JournalSeparators == {<<" ">>, <<":">>, <<"-">>}

RECURSIVE JournalNames(_)
JournalNames(n) ==
    IF n = 1 THEN JournalWords
    ELSE JournalNames(n - 1) \cup
         {name \o sep \o w : name \in JournalNames(n - 1), sep \in JournalSeparators,
                             w \in JournalWords}

InitJournal ==
    /\ pc = "abbreviate"
    /\ argument \in [name : JournalNames(MaxJournalWords), shared : BOOLEAN]
    /\ outcome = Nothing
    /\ lookup = <<>>
    /\ citation = <<>>
    /\ score = Nothing
    /\ input = <<>>
    /\ autoSaveMinimum = <<0, 1>>
    /\ autoSaveMaximum = <<0, 1>>
    /\ stack = <<>>
    /\ res = <<>>
    /\ queryResults = <<>>
    /\ shown = <<>>
    /\ bestResult = Nothing
    /\ lookupDoi = <<>>
    /\ found = Nothing
    /\ replies = 0
    /\ log = <<>>
    /\ raised = ""

\* journal.py:17-31 one call getAbbreviation(name)
GetAbbreviation ==
    /\ pc = "abbreviate"
    /\ outcome' = Return(getAbbreviation(argument.name, argument.shared))
    /\ pc' = "abbreviated"
    /\ UNCHANGED <<passVars, res, searchVars, log, raised, overlapVars, argument>>

NextJournal == GetAbbreviation

SpecJournal == InitJournal /\ [][NextJournal]_vars

\* the ':' segments of the name, the '-' parts of segment s and the words
\* of part p of segment s
SegmentsOf(name) == splitOn(name, <<":">>)

PartsOf(name, s) == splitOn(SegmentsOf(name)[s], <<"-">>)

WordsOf(name, s, p) == split(PartsOf(name, s)[p])

\* the word has no replacement in any of the four dictionaries
Unabbreviable(word) == abbreviateWord(word).exc # ""

\* the words printed for part p of segment s
PrintedWords(s, p) ==
    split(splitOn(splitOn(outcome.val, <<":", " ">>)[s], <<"-">>)[p])

\* C24: in the abbreviation of a journal name that is not in the journal
\* dictionary, every part of every segment prints one word for each of its
\* words that has a replacement, for its last word, and for the first word of
\* the first segment, and no word else: a first word without replacement of
\* a later segment or part that is not the last word there is dropped.
C24_UnabbreviableWordsDropped ==
    (pc = "abbreviated" /\ getJournalAbbreviation(argument.name).exc # "") =>
        \A s \in 1..Len(SegmentsOf(argument.name)) :
            getJournalAbbreviation(SegmentsOf(argument.name)[s]).exc # "" =>
                \A p \in 1..Len(PartsOf(argument.name, s)) :
                    LET words == WordsOf(argument.name, s, p)
                    IN  Len(PrintedWords(s, p)) =
                            Cardinality({n \in 1..Len(words) :
                                            \/ ~Unabbreviable(words[n])
                                            \/ n = Len(words)
                                            \/ (n = 1 /\ s = 1 /\ p = 1)})

\* the replacement by the key of the infix dictionary that is longest and,
\* for that length, nearest the end of the word
nearestEndInfix(name) ==
    LET keys == {ij \in (0..Len(name)) \X (0..Len(name)) :
                    /\ ij[1] + ij[2] <= Len(name)
                    /\ SubSeq(name, ij[2] + 1, ij[1] + ij[2]) \in DOMAIN infixes}
        i == Max({ij[1] : ij \in keys})
        j == Max({ij[2] : ij \in {k \in keys : k[1] = i}})
    IN  SubSeq(name, 1, j) \o infixes[SubSeq(name, j + 1, i + j)]

\* the three dictionaries consulted before the infix dictionary have
\* nothing for the word
OnlyInfix(word) ==
    /\ getFullReplacement(lower(word)) = <<>>
    /\ getPrefixReplacement(lower(word)) = <<>>
    /\ getSuffixReplacement(lower(word)) = <<>>
    /\ getInfixReplacement(lower(word)) # <<>>

\* C25: a journal name of one word for which the full-word, prefix and
\* suffix dictionaries have nothing is printed with the replacement of its
\* longest infix key and, among the keys of that length, of the one nearest
\* the end of the word; a word for which one of the three has a replacement
\* is printed without the infix dictionary.
C25_InfixNearestTheEnd ==
    (pc = "abbreviated" /\ argument.name \in JournalWords) =>
        LET word == argument.name
        IN  /\ OnlyInfix(word) =>
                outcome.val = strTitle(nearestEndInfix(lower(word)))
            /\ (~OnlyInfix(word) /\ ~Unabbreviable(word)) =>
                \E r \in {getFullReplacement(lower(word)),
                          getPrefixReplacement(lower(word)),
                          getSuffixReplacement(lower(word))} :
                    /\ r # <<>>
                    /\ outcome.val \in {strTitle(r[1]), strTitle(word)}

----------------------------------------------------------------------------
(* metadata.py: a record as a formatted reference *)

\* metadata.py:321-333 _getAuthorsAsString: a list of no or one string
getAuthorsAsString(m, maxAuthors, abbreviateNames, familyNameFirst) ==
    IF Len(m.author) > 0
    THEN <<formatNameString(m.author, maxAuthors, abbreviateNames, familyNameFirst)
           \o <<",">>>>
    ELSE <<>>

\* metadata.py:335-348 _getEditorsAsString
getEditorsAsString(m, maxAuthors, abbreviateNames, familyNameFirst) ==
    LET editorString ==
            formatNameString(m.editor, maxAuthors, abbreviateNames, familyNameFirst)
    IN  IF Len(m.editor) > 0
        THEN <<IF Len(m.editor) = 1 THEN editorString \o <<" ", "(", "E", "d", ".", ")", ",">>
               ELSE editorString \o <<" ", "(", "E", "d", "s", ".", ")", ",">>>>
        ELSE <<>>

\* metadata.py:400-419 _getPagesAsString
getPagesAsString(m, firstPageOnly) ==
    IF firstPageOnly /\ Len(m.pageStart) > 0 THEN m.pageStart
    ELSE IF Len(m.pageStart) > 0 /\ Len(m.pageEnd) > 0
    THEN m.pageStart \o <<"-">> \o m.pageEnd
    ELSE IF Len(m.pageStart) > 0 THEN m.pageStart
    ELSE IF Len(m.pageEnd) > 0 THEN m.pageEnd
    ELSE <<>>

\* res.append(value + tail) if len(value) > 0: a list of no or one string
appended(value, tail) == IF Len(value) > 0 THEN <<value \o tail>> ELSE <<>>

\* metadata.py:249-274 _journalToString, o the record of the parameters
journalToString(m, o, shared) ==
    joinWith(getAuthorsAsString(m, o.maxAuthors, o.abbreviateNames, o.familyNameFirst)
             \o (IF o.forceTitle THEN appended(m.title, <<",">>) ELSE <<>>)
             \o (IF Len(m.journal) > 0
                 THEN <<IF o.abbreviateJournal THEN getAbbreviation(m.journal, shared)
                        ELSE m.journal>>
                 ELSE <<>>)
             \o appended(m.volume, <<",">>)
             \o appended(getPagesAsString(m, o.firstPageOnly), <<>>)
             \o (IF Len(m.year) > 0 THEN <<<<"(">> \o m.year \o <<")">>>> ELSE <<>>),
             <<" ">>)

\* metadata.py:276-295 _arxivToString
arxivToString(m, arxivIdentifier, o) ==
    joinWith(getAuthorsAsString(m, o.maxAuthors, o.abbreviateNames, o.familyNameFirst)
             \o (IF o.forceTitle THEN appended(m.title, <<",">>) ELSE <<>>)
             \o <<<<"a", "r", "X", "i", "v", ":">> \o arxivIdentifier>>
             \o (IF Len(m.year) > 0 THEN <<<<"(">> \o m.year \o <<")">>>> ELSE <<>>),
             <<" ">>)

\* metadata.py:297-319 _anyToString
anyToString(m, o) ==
    joinWith((IF Len(m.author) > 0
              THEN getAuthorsAsString(m, o.maxAuthors, o.abbreviateNames, o.familyNameFirst)
              ELSE getEditorsAsString(m, o.maxAuthors, o.abbreviateNames,
                                      o.familyNameFirst))
             \o appended(m.title, <<",">>)
             \o (IF Len(m.author) > 0
                 THEN getEditorsAsString(m, o.maxAuthors, o.abbreviateNames,
                                         o.familyNameFirst)
                 ELSE <<>>)
             \o appended(m.publisher, <<>>)
             \o (IF Len(m.year) > 0 THEN <<<<"(">> \o m.year \o <<")">>>> ELSE <<>>),
             <<" ">>)

\* metadata.py:122-144 toReferenceString, o the record of its parameters
toReferenceString(m, o, shared) ==
    IF Len(m.journal) > 0 THEN journalToString(m, o, shared)
    ELSE IF arxividExtract(m.url).exc = ""
    THEN arxivToString(m, arxividExtract(m.url).val, o)
    ELSE anyToString(m, o)

\* metadata.py:122-123 the default values of the parameters
defaultOptions ==
    [maxAuthors |-> 0, abbreviateJournal |-> TRUE, abbreviateNames |-> TRUE,
     familyNameFirst |-> FALSE, forceTitle |-> FALSE, firstPageOnly |-> FALSE]

----------------------------------------------------------------------------
(* Specification of toReferenceString with the default parameters *)

\* most authors of a record
MaxAuthors == 1

RenderedNames == {Names(<<"j", "a", "n", "e">>, <<"d", "o", "e">>), Names(<<"J", "A", "N", "E">>, <<"D", "O", "E">>)}

RenderedRecords ==
    [journal : {<<>>, <<"P", "h", "y", "s", "i", "c", "a", "l", " ", "R", "e", "v", "i", "e", "w", " ", "L", "e", "t", "t", "e", "r", "s">>, <<"t", "h", "e", " ", "b", "a", "n", "a", "n", "a">>},
     url : {<<>>, <<"1", "2", "3", "4", ".", "5", "6", "7", "8">>},
     author : UNION {[1..k -> RenderedNames] : k \in 0..MaxAuthors},
     editor : {<<>>, <<Names(<<"J", "A", "N", "E">>, <<"D", "O", "E">>)>>},
     publisher : {<<>>, <<"P">>},
     title : {<<>>, <<"T">>},
     volume : {<<>>, <<"1", "1", "0">>},
     year : {<<>>, <<"2", "0", "1", "3">>},
     pageStart : {<<>>, <<"1", "2", "3", "4", "5", "6">>},
     pageEnd : {<<>>, <<"9">>}]

InitRender ==
    /\ pc = "render"
    /\ argument \in [m : RenderedRecords, shared : BOOLEAN]
    /\ outcome = Nothing
    /\ lookup = <<>>
    /\ citation = <<>>
    /\ score = Nothing
    /\ input = <<>>
    /\ autoSaveMinimum = <<0, 1>>
    /\ autoSaveMaximum = <<0, 1>>
    /\ stack = <<>>
    /\ res = <<>>
    /\ queryResults = <<>>
    /\ shown = <<>>
    /\ bestResult = Nothing
    /\ lookupDoi = <<>>
    /\ found = Nothing
    /\ replies = 0
    /\ log = <<>>
    /\ raised = ""

\* metadata.py:122-144 one call m.toReferenceString()
ToReferenceString ==
    /\ pc = "render"
    /\ outcome' = Return(toReferenceString(argument.m, defaultOptions, argument.shared))
    /\ pc' = "rendered"
    /\ UNCHANGED <<passVars, res, searchVars, log, raised, overlapVars, argument>>

NextRender == ToReferenceString

SpecRender == InitRender /\ [][NextRender]_vars

\* the names in full and capitalized, given name first
CapitalizedInFull(names) ==
    joinWith([i \in DOMAIN names |->
                 strTitle(names[i].givenName) \o <<" ">> \o strTitle(names[i].familyName)],
             <<",", " ">>)

\* the record of the example
JaneDoeRecord ==
    [journal |-> <<"P", "h", "y", "s", "i", "c", "a", "l", " ", "R", "e", "v", "i", "e", "w", " ", "L", "e", "t", "t", "e", "r", "s">>, url |-> <<>>,
     author |-> <<Names(<<"j", "a", "n", "e">>, <<"d", "o", "e">>)>>, editor |-> <<>>, publisher |-> <<>>,
     title |-> <<>>, volume |-> <<"1", "1", "0">>, year |-> <<"2", "0", "1", "3">>,
     pageStart |-> <<"1", "2", "3", "4", "5", "6">>, pageEnd |-> <<>>]

\* C26: a record with a journal rendered with the default parameters is, in
\* this order and with one space between them, the authors (given name
\* first, capitalized and in full) and a comma, the abbreviated journal, the
\* volume and a comma, the pages, and the year in parentheses, the empty
\* ones left out; the record of the example gives
\* "Jane Doe, Phys. Rev. Lett. 110, 123456 (2013)".
C26_DefaultJournalRendering ==
    (pc = "rendered" /\ Len(argument.m.journal) > 0) =>
        /\ outcome.val =
               joinWith(appended(CapitalizedInFull(argument.m.author), <<",">>)
                        \o <<getAbbreviation(argument.m.journal, argument.shared)>>
                        \o appended(argument.m.volume, <<",">>)
                        \o appended(getPagesAsString(argument.m, FALSE), <<>>)
                        \o (IF Len(argument.m.year) > 0
                            THEN <<<<"(">> \o argument.m.year \o <<")">>>>
                            ELSE <<>>),
                        <<" ">>)
        /\ argument.m = JaneDoeRecord =>
               outcome.val = <<"J", "a", "n", "e", " ", "D", "o", "e", ",", " ", "P", "h", "y", "s", ".", " ", "R", "e", "v", ".", " ", "L", "e", "t", "t", ".", " ", "1", "1", "0", ",", " ", "1", "2", "3", "4", "5", "6", " ", "(", "2", "0", "1", "3", ")">>

----------------------------------------------------------------------------
(* C27, C28: getMetadata, the searches of CrossRef *)

\* C27: a pass whose arXiv lookup found a record and whose search of
\* CrossRef with the string of that record gave no record searches CrossRef
\* with the input string before it returns.
C27_InputSearchedAfterSeededFailure ==
    (pc = "return" /\ Origins = <<"arxiv">> /\ EventsOf("search.arxiv") # {}) =>
        \E i \in EventsOf("search.arxiv") :
            \E j \in EventsOf("search.input") : i < j

\* C28: every ranking of query results made inside one call of getMetadata,
\* in a pass started with a better lookup string too, uses the autoSaveMinimum
\* and autoSaveMaximum passed to getMetadata.
C28_CallerThresholdsGovern ==
    (pc = "rank" /\ stack # <<>>) =>
        /\ autoSaveMinimum = stack[1].autoSaveMinimum
        /\ autoSaveMaximum = stack[1].autoSaveMaximum

----------------------------------------------------------------------------
(* C29: the replies at the prompt of _askUserForBestResult *)

\* C29: at the prompt over the n results shown, the reply k with
\* 1 <= k <= n returns result k, the reply 0 returns None, and every other
\* reply (no integer, a negative integer, an integer above n) raises an
\* Exception that makes the loop ask again: nothing is returned but on a
\* reply in 0..n.
C29_PromptSelection ==
    pc = "prompt" =>
        \A reply \in Replies(Len(shown)) :
            LET r == askUserOnce(shown, reply)
                n == Len(shown)
            IN  /\ (reply.kind = "int" /\ reply.n \in 1..n) => r = Return(<<shown[reply.n]>>)
                /\ (reply.kind = "int" /\ reply.n = 0) => r = Return(<<>>)
                /\ (reply.kind = "text" \/ (reply.kind = "int" /\ reply.n \notin 0..n))
                       => CaughtByExceptException(r.exc)
                /\ r.exc = "" => (reply.kind = "int" /\ reply.n \in 0..n)

----------------------------------------------------------------------------
(* C30: doi.extract applied to its own result *)

\* C30: when extract finds a DOI d in a text, extract(d) finds d again, so
\* the extraction of _getMetadataFromDoi from a DOI already extracted never
\* fails.
C30_ExtractIdempotent ==
    (pc = "extracted" /\ outcome.exc = "") => doiExtract(outcome.val) = Return(outcome.val)

====
